---- MODULE Spec2Model ----
(***************************************************************************)
(* Model of the keyword-driven snippet generator (snippet_gen.cpp): the    *)
(* on-disk store of user keywords (load_user_keywords /                    *)
(* save_user_keywords), the placeholder expander                           *)
(* (parts_from_user_snippet_with_params) and the interactive main loop.    *)
(* C++ strings are TLA+ strings; positions are 0-based as in the source    *)
(* and npos is -1.                                                         *)
(***************************************************************************)
EXTENDS Integers, Sequences, FiniteSets, TLC

(***************************************************************************)
(* std::string primitives                                                  *)
(***************************************************************************)
npos == 0 - 1

Min(a, b) == IF a < b THEN a ELSE b

\* s[i], 0-based
At(s, i) == SubSeq(s, i + 1, i + 1)

\* s.substr(pos, n)
substr(s, pos, n) == SubSeq(s, pos + 1, Min(pos + n, Len(s)))

\* s.substr(pos)
substr_from(s, pos) == SubSeq(s, pos + 1, Len(s))

\* the first position in lo..hi at which token stands in s, else npos; the
\* range is searched by halves
RECURSIVE find_in(_, _, _, _)
find_in(s, token, lo, hi) ==
    IF lo > hi THEN npos
    ELSE IF lo = hi
    THEN (IF SubSeq(s, lo + 1, lo + Len(token)) = token THEN lo ELSE npos)
    ELSE IF find_in(s, token, lo, (lo + hi) \div 2) # npos
    THEN find_in(s, token, lo, (lo + hi) \div 2)
    ELSE find_in(s, token, (lo + hi) \div 2 + 1, hi)

\* s.find(token, pos)
find(s, token, pos) == find_in(s, token, pos, Len(s) - Len(token))

RECURSIVE rfind_from(_, _, _)
rfind_from(s, token, pos) ==
    IF pos < 0 THEN npos
    ELSE IF SubSeq(s, pos + 1, pos + Len(token)) = token THEN pos
    ELSE rfind_from(s, token, pos - 1)

\* s.rfind(token)
rfind(s, token) == rfind_from(s, token, Len(s) - Len(token))

\* s.rfind(token, 0) == 0, the source's "begins with" test
begins_with(s, token) ==
    Len(s) >= Len(token) /\ SubSeq(s, 1, Len(token)) = token

\* std::isspace in the "C" locale (the vertical tab has no TLA+ escape)
SpaceChars == {" ", "\t", "\n", "\r", "\f"}

isspace(c) == c \in SpaceChars

\* the printable ASCII characters 0x20..0x5F and 0x61..0x7E in code order
\* (0x60, the backquote, cannot be written in a TLA+ string)
PrintableLow ==
    " !\"#$%&'()*+,-./0123456789:;<=>?@ABCDEFGHIJKLMNOPQRSTUVWXYZ[\\]^_"

PrintableHigh == "abcdefghijklmnopqrstuvwxyz{|}~"

\* the codes of the characters of the two tables
CharCodes ==
    [c \in {SubSeq(PrintableLow, i, i) : i \in 1..Len(PrintableLow)}
              \cup {SubSeq(PrintableHigh, i, i) : i \in 1..Len(PrintableHigh)} |->
        IF \E i \in 1..Len(PrintableLow) : SubSeq(PrintableLow, i, i) = c
        THEN 31 + (CHOOSE i \in 1..Len(PrintableLow) : SubSeq(PrintableLow, i, i) = c)
        ELSE 96 + (CHOOSE i \in 1..Len(PrintableHigh) : SubSeq(PrintableHigh, i, i) = c)]

\* the character code of c (unsigned char); the one printable character in
\* neither table is the backquote, 0x60
CharCode(c) ==
    IF c = "\t" THEN 9
    ELSE IF c = "\n" THEN 10
    ELSE IF c = "\f" THEN 12
    ELSE IF c = "\r" THEN 13
    ELSE IF c \in DOMAIN CharCodes THEN CharCodes[c]
    ELSE 96

\* std::ispunct in the "C" locale: printable, not space, not alphanumeric
ispunct(c) ==
    LET k == CharCode(c) IN
        \/ (k >= 33 /\ k <= 47)
        \/ (k >= 58 /\ k <= 64)
        \/ (k >= 91 /\ k <= 96)
        \/ (k >= 123 /\ k <= 126)

\* isalpha that takes every character for a letter
isalpha_any(c) == TRUE

isalpha(c) ==
    LET k == CharCode(c) IN
        \/ (k >= 65 /\ k <= 90)
        \/ (k >= 97 /\ k <= 122)

\* std::tolower of one character
tolower(c) ==
    LET k == CharCode(c) IN
        IF k >= 65 /\ k <= 90 THEN At(PrintableHigh, k - 65) ELSE c

RECURSIVE skip_front(_, _, _, _)
skip_front(s, b, e, space) ==
    IF b < e /\ (IF space THEN isspace(At(s, b)) ELSE ispunct(At(s, b)))
    THEN skip_front(s, b + 1, e, space) ELSE b

RECURSIVE skip_back(_, _, _, _)
skip_back(s, b, e, space) ==
    IF e > b /\ (IF space THEN isspace(At(s, e - 1)) ELSE ispunct(At(s, e - 1)))
    THEN skip_back(s, b, e - 1, space) ELSE e

trim(s) ==
    LET b == skip_front(s, 0, Len(s), TRUE)
        e == skip_back(s, b, Len(s), TRUE)
    IN  substr(s, b, e - b)

RECURSIVE lower_all(_)
lower_all(t) ==
    IF t = "" THEN "" ELSE tolower(At(t, 0)) \o lower_all(substr_from(t, 1))

normalize_token(token) ==
    LET i == skip_front(token, 0, Len(token), FALSE)
        j == skip_back(token, i, Len(token), FALSE)
    IN  lower_all(substr(token, i, j - i))

\* the items std::getline(stream, item, delim) yields until the stream ends
RECURSIVE getline_all(_, _)
getline_all(s, delim) ==
    IF s = "" THEN << >>
    ELSE LET p == find(s, delim, 0) IN
         IF p = npos THEN << s >>
         ELSE << substr(s, 0, p) >> \o getline_all(substr_from(s, p + 1), delim)

RECURSIVE trim_each(_)
trim_each(items) ==
    IF items = << >> THEN << >>
    ELSE << trim(Head(items)) >> \o trim_each(Tail(items))

split_csv(s) == trim_each(getline_all(s, ","))

(***************************************************************************)
(* The C++17 keyword set                                                   *)
(***************************************************************************)
cpp17_keywords ==
    {"alignas", "alignof", "and", "and_eq", "asm", "auto", "bitand", "bitor",
     "bool", "break", "case", "catch", "char", "char16_t", "char32_t", "class",
     "compl", "const", "constexpr", "const_cast", "continue", "decltype",
     "default", "delete", "do", "double", "dynamic_cast", "else", "enum",
     "explicit", "export", "extern", "false", "float", "for", "friend", "goto",
     "if", "inline", "int", "long", "mutable", "namespace", "new", "noexcept",
     "not", "not_eq", "nullptr", "operator", "or", "or_eq", "private",
     "protected", "public", "register", "reinterpret_cast", "return", "short",
     "signed", "sizeof", "static", "static_assert", "static_cast", "struct",
     "switch", "template", "this", "thread_local", "throw", "true", "try",
     "typedef", "typeid", "typename", "union", "unsigned", "using", "virtual",
     "void", "volatile", "wchar_t", "while", "xor", "xor_eq"}

(***************************************************************************)
(* Persistence of the user keywords                                        *)
(***************************************************************************)
\* struct UserKeyword: the raw snippet and the ordered (name, default) pairs
UserKeyword(snippet, params) == [snippet |-> snippet, params |-> params]

\* an empty map<string,UserKeyword>
EmptyMap == [k \in {} |-> UserKeyword("", << >>)]

\* m[key] = uk
MapPut(m, key, uk) ==
    [k \in DOMAIN m \cup {key} |-> IF k = key THEN uk ELSE m[k]]

\* m.erase(key)
MapErase(m, key) == [k \in DOMAIN m \ {key} |-> m[k]]

\* parse_param_items that keeps the items whose name is empty
RECURSIVE parse_param_items_keep_unnamed(_)
parse_param_items_keep_unnamed(parts) ==
    IF parts = << >> THEN << >>
    ELSE LET p    == Head(parts)
             eq   == find(p, "=", 0)
             name == trim(IF eq = npos THEN p ELSE substr(p, 0, eq))
             def  == trim(IF eq = npos THEN "" ELSE substr_from(p, eq + 1))
         IN  << <<name, def>> >> \o parse_param_items_keep_unnamed(Tail(parts))

\* the "name=default" items of a parameter line, as the three copies of this
\* loop (loader, :add, inline define) build the parameter vector
RECURSIVE parse_param_items(_)
parse_param_items(parts) ==
    IF parts = << >> THEN << >>
    ELSE LET p    == Head(parts)
             eq   == find(p, "=", 0)
             name == trim(IF eq = npos THEN p ELSE substr(p, 0, eq))
             def  == trim(IF eq = npos THEN "" ELSE substr_from(p, eq + 1))
         IN  (IF name # "" THEN << <<name, def>> >> ELSE << >>)
                 \o parse_param_items(Tail(parts))

\* the locals of load_user_keywords together with the output map
LoadState(out_map) ==
    [in_entry |-> FALSE, current_key |-> "", current_params |-> << >>,
     buffer |-> "", out_map |-> out_map]

\* the test both marker branches apply to the line: a colon, a closing "==="
\* and at least one character between them
marker_has_payload(line) ==
    LET colon == find(line, ":", 0)
        last  == rfind(line, "===")
    IN  colon # npos /\ last # npos /\ last > colon + 1

\* line.substr(colon + 1, last - (colon + 1)), trimmed
marker_payload(line) ==
    LET colon == find(line, ":", 0)
        last  == rfind(line, "===")
    IN  trim(substr(line, colon + 1, last - (colon + 1)))

\* LoadOutsideEntry that opens no entry
LoadOutsideEntry_stay(st, line) == st

\* outside an entry: only a ===KEYWORD: line with a payload does anything
LoadOutsideEntry(st, line) ==
    IF begins_with(line, "===KEYWORD:") /\ marker_has_payload(line)
    THEN [st EXCEPT !.current_key = marker_payload(line),
                    !.current_params = << >>,
                    !.buffer = "",
                    !.in_entry = TRUE]
    ELSE st

\* LoadParamsLine that lets a line without payload fall through to the body
LoadParamsLine_kept(st, line) ==
    IF marker_has_payload(line) /\ marker_payload(line) # ""
    THEN [st EXCEPT !.current_params =
             @ \o parse_param_items(split_csv(marker_payload(line)))]
    ELSE [st EXCEPT !.buffer = @ \o line \o "\n"]

\* inside an entry: a line that begins with ===PARAMS:
LoadParamsLine(st, line) ==
    IF marker_has_payload(line) /\ marker_payload(line) # ""
    THEN [st EXCEPT !.current_params =
             @ \o parse_param_items(split_csv(marker_payload(line)))]
    ELSE st

\* inside an entry: the line ===END===
LoadEndLine(st) ==
    [st EXCEPT !.out_map = MapPut(@, trim(st.current_key),
                                  UserKeyword(st.buffer, st.current_params)),
               !.in_entry = FALSE,
               !.current_key = "",
               !.current_params = << >>,
               !.buffer = ""]

\* inside an entry: any other line
LoadBodyLine(st, line) == [st EXCEPT !.buffer = @ \o line \o "\n"]

\* one iteration of the while (std::getline(ifs, line)) loop
LoadLine(st, line) ==
    IF ~st.in_entry THEN LoadOutsideEntry(st, line)
    ELSE IF begins_with(line, "===PARAMS:") THEN LoadParamsLine(st, line)
    ELSE IF line = "===END===" THEN LoadEndLine(st)
    ELSE LoadBodyLine(st, line)

\* LoadCommitAtEof without the commit
LoadCommitAtEof_dropped(st) == st

\* the commit after the loop, when the file ended mid-entry
LoadCommitAtEof(st) ==
    IF st.in_entry /\ st.current_key # ""
    THEN [st EXCEPT !.out_map = MapPut(@, trim(st.current_key),
                                       UserKeyword(st.buffer, st.current_params))]
    ELSE st

RECURSIVE LoadLines(_, _)
LoadLines(st, lines) ==
    IF lines = << >> THEN st
    ELSE LoadLines(LoadLine(st, Head(lines)), Tail(lines))

\* a file on disk: whether it can be opened, and its text
File(exists, text) == [exists |-> exists, text |-> text]

\* LoadBegin without the out_map.clear()
LoadBegin_no_clear(out_map, f) == [out_map |-> out_map, opened |-> f.exists]

\* out_map.clear(); std::ifstream ifs(path); if (!ifs) return;
\* the map afterwards and whether the stream is good
LoadBegin(out_map, f) == [out_map |-> EmptyMap, opened |-> f.exists]

\* load_user_keywords(out_map, path): the resulting out_map
load_user_keywords(out_map, f) ==
    LET begun == LoadBegin(out_map, f) IN
        IF ~begun.opened THEN begun.out_map
        ELSE LoadCommitAtEof(
                 LoadLines(LoadState(begun.out_map), getline_all(f.text, "\n"))).out_map

\* a < b for std::string (lexicographic on unsigned characters)
RECURSIVE StrLess(_, _)
StrLess(a, b) ==
    IF b = "" THEN FALSE
    ELSE IF a = "" THEN TRUE
    ELSE IF At(a, 0) = At(b, 0) THEN StrLess(substr_from(a, 1), substr_from(b, 1))
    ELSE CharCode(At(a, 0)) < CharCode(At(b, 0))

\* the keys of a std::map in iteration order
RECURSIVE SortedKeys(_)
SortedKeys(keys) ==
    IF keys = {} THEN << >>
    ELSE LET first == CHOOSE k \in keys : \A o \in keys \ {k} : StrLess(k, o)
         IN  << first >> \o SortedKeys(keys \ {first})

RECURSIVE params_text(_, _)
params_text(params, first) ==
    IF params = << >> THEN ""
    ELSE (IF first THEN "" ELSE ",")
             \o Head(params)[1] \o "=" \o Head(params)[2]
             \o params_text(Tail(params), FALSE)

\* what save_user_keywords writes for one map entry
entry_text(key, uk) ==
    "===KEYWORD:" \o key \o "===\n"
        \o (IF uk.params # << >>
            THEN "===PARAMS:" \o params_text(uk.params, TRUE) \o "===\n"
            ELSE "")
        \o uk.snippet
        \o (IF uk.snippet # "" /\ At(uk.snippet, Len(uk.snippet) - 1) # "\n"
            THEN "\n" ELSE "")
        \o "===END===\n"

RECURSIVE entries_text(_, _)
entries_text(m, keys) ==
    IF keys = << >> THEN ""
    ELSE entry_text(Head(keys), m[Head(keys)]) \o entries_text(m, Tail(keys))

\* the text save_user_keywords(m, path) writes once the file is open
save_text(m) == entries_text(m, SortedKeys(DOMAIN m))

\* save_user_keywords with the file opened for appending
save_user_keywords_append(m, f, can_open) ==
    IF ~can_open THEN [file |-> f, ok |-> FALSE]
    ELSE [file |-> File(TRUE, f.text \o save_text(m)), ok |-> TRUE]

\* save_user_keywords(m, path): the file afterwards and the returned flag;
\* can_open is whether std::ofstream could open the path for writing
save_user_keywords(m, f, can_open) ==
    IF ~can_open THEN [file |-> f, ok |-> FALSE]
    ELSE [file |-> File(TRUE, save_text(m)), ok |-> TRUE]

(***************************************************************************)
(* Parts and the placeholder expander                                      *)
(***************************************************************************)
\* struct Parts
Parts(includes, top, body) == [includes |-> includes, top |-> top, body |-> body]

\* next_pos that stays at the start of the inserted text
next_pos_rescan(pos, repl) == pos

\* pos += repl.size()
next_pos(pos, repl) == pos + Len(repl)

RECURSIVE replace_from(_, _, _, _)
replace_from(s, token, repl, pos) ==
    LET p == find(s, token, pos) IN
        IF p = npos THEN s
        ELSE replace_from(substr(s, 0, p) \o repl \o substr_from(s, p + Len(token)),
                          token, repl, p + Len(repl))

\* replace_all that stops after the first occurrence
replace_all_once(s, token, repl) ==
    LET p == find(s, token, 0) IN
        IF token = "" \/ p = npos THEN s
        ELSE substr(s, 0, p) \o repl \o substr_from(s, p + Len(token))

\* replace_all(s, token, repl): the value of s afterwards
replace_all(s, token, repl) ==
    IF token = "" THEN s ELSE replace_from(s, token, repl, 0)

\* the substitution loop of parts_from_user_snippet_with_params: the value of
\* transformed after the parameters params have been handled in order
RECURSIVE substitute_params(_, _, _)
substitute_params(transformed, params, values) ==
    IF params = << >> THEN transformed
    ELSE LET pname == Head(params)[1]
             val   == IF pname \in DOMAIN values THEN values[pname]
                      ELSE Head(params)[2]
         IN  substitute_params(replace_all(transformed, "{" \o pname \o "}", val),
                               Tail(params), values)

\* the line scan that moves #include lines out of the body
RECURSIVE scan_snippet_lines(_, _)
scan_snippet_lines(p, lines) ==
    IF lines = << >> THEN p
    ELSE LET line  == Head(lines)
             tline == trim(line)
             rem   == trim(substr_from(tline, 8))
         IN  IF begins_with(tline, "#include") \/ begins_with(tline, "# include")
             THEN scan_snippet_lines(
                      IF rem # "" THEN [p EXCEPT !.includes = Append(@, rem)] ELSE p,
                      Tail(lines))
             ELSE scan_snippet_lines([p EXCEPT !.body = Append(@, line)], Tail(lines))

\* parts_from_user_snippet_with_params (snippet_gen.cpp)
parts_from_user_snippet_with_params(uk, values, tag) ==
    LET transformed == substitute_params(uk.snippet, uk.params, values) IN
        IF find(transformed, "int main(", 0) # npos
        THEN Parts(<< >>, << >>,
                 << "// (" \o tag \o ") ERROR: user snippet contains 'int main('. This is disallowed for custom keywords.",
                    "// Please redefine this custom keyword without a main() function." >>)
        ELSE LET p == scan_snippet_lines(Parts(<< >>, << >>, << >>),
                                         getline_all(transformed, "\n"))
             IN  [p EXCEPT !.body =
                    << "// (" \o tag \o ") User-defined snippet (with parameter substitution):" >> \o @]

\* parts_from_user_snippet_with_params as the earlier variant of the program
\* has it: a snippet with an entry point is passed on as a full program
parts_from_user_snippet_with_params_v0(uk, values, tag) ==
    LET transformed == substitute_params(uk.snippet, uk.params, values) IN
        IF find(transformed, "int main(", 0) # npos
        THEN Parts(<< >>,
                 << "// (" \o tag \o ") User-defined full program:", transformed >>,
                 << "// (" \o tag \o ") User program above; no extra main content inserted here." >>)
        ELSE Parts(<< >>, << >>,
                 << "// (" \o tag \o ") User-defined snippet (with parameter substitution):" >>
                     \o getline_all(transformed, "\n"))

(***************************************************************************)
(* Generation context, fragments and the assembled program                 *)
(***************************************************************************)
\* std::to_string of a non-negative int
RECURSIVE to_string(_)
to_string(n) ==
    IF n < 10 THEN At("0123456789", n)
    ELSE to_string(n \div 10) \o At("0123456789", n % 10)

\* struct Context (the meta map is never written by the modelled handlers)
Context(vars, types, last_var, last_type) ==
    [vars |-> vars, types |-> types, last_var |-> last_var, last_type |-> last_type]

\* EmptyContext in which the name x is declared already
EmptyContext_used == Context([k \in {"x"} |-> "int"], {}, "x", "")

EmptyContext == Context([k \in {} |-> ""], {}, "", "")

\* free_name that tries one suffix only
free_name_once(vars, base_name, name, suffix) ==
    IF name \in DOMAIN vars THEN base_name \o to_string(suffix) ELSE name

RECURSIVE free_name(_, _, _, _)
free_name(vars, base_name, name, suffix) ==
    IF name \in DOMAIN vars
    THEN free_name(vars, base_name, base_name \o to_string(suffix), suffix + 1)
    ELSE name

\* declare_variable(ctx, type, base_name, init): the context afterwards and
\* the returned declaration
declare_variable(ctx, type, base_name, init) ==
    LET name == free_name(ctx.vars, base_name, base_name, 1) IN
        [ctx  |-> [ctx EXCEPT
                     !.vars = [k \in DOMAIN ctx.vars \cup {name} |->
                                  IF k = name THEN type ELSE ctx.vars[k]],
                     !.last_var = name],
         decl |-> type \o " " \o name \o " = " \o init \o ";"]

\* append_parts that puts the new fragment in front
append_parts_front(acc, p) ==
    Parts(p.includes \o acc.includes, p.top \o acc.top, p.body \o acc.body)

\* append_parts(acc, p): the value of acc afterwards
append_parts(acc, p) ==
    Parts(acc.includes \o p.includes, acc.top \o p.top, acc.body \o p.body)

\* normalize_include_for_key that only trims
normalize_include_for_key_plain(raw) == trim(raw)

normalize_include_for_key(raw) ==
    LET s == trim(raw) IN
        IF s = "" THEN s
        ELSE IF At(s, 0) = "<" /\ At(s, Len(s) - 1) = ">" THEN s
        ELSE IF At(s, 0) = "\"" /\ At(s, Len(s) - 1) = "\"" THEN s
        ELSE "<" \o s \o ">"

RECURSIVE join_lines(_, _, _)
join_lines(lines, prefix, suffix) ==
    IF lines = << >> THEN ""
    ELSE prefix \o Head(lines) \o suffix \o join_lines(Tail(lines), prefix, suffix)

make_program_from_body_lines(body_lines, extra_includes, extra_top) ==
    LET keys == {normalize_include_for_key(extra_includes[i]) :
                     i \in 1..Len(extra_includes)}
        uniq == keys \ {"", "<iostream>"}
    IN  "#include <iostream>\n"
            \o join_lines(SortedKeys(uniq), "#include ", "\n")
            \o "\n"
            \o join_lines(extra_top, "", "\n")
            \o "\nusing namespace std;\n\n"
            \o "int main(int argc, char *argv[]) {\n"
            \o join_lines(body_lines, "    ", "\n")
            \o "    return 0;\n"
            \o "}\n"

\* the default initial value handle_type_like offers for kw
type_like_default(kw) ==
    IF kw = "char32_t" THEN "U'a'"
    ELSE IF kw = "char16_t" THEN "u'a'"
    ELSE IF kw = "wchar_t" THEN "L'a'"
    ELSE IF kw = "short" THEN "42"
    ELSE IF kw = "long" THEN "123456789L"
    ELSE IF kw = "float" THEN "2.5f"
    ELSE IF kw = "double" THEN "3.14"
    ELSE IF kw = "char" THEN "'a'"
    ELSE IF kw = "bool" THEN "true"
    ELSE "0"

\* the keywords generate_parts_for_keyword_occurrence routes to handle_type_like
TypeLikeKeywords ==
    {"int", "double", "float", "char", "long", "short", "signed", "unsigned",
     "bool", "wchar_t", "char16_t", "char32_t"}

\* handle_type_like once both answers are in: the context and the fragment
handle_type_like(ctx, kw, tag, name, init) ==
    LET d == declare_variable(ctx, kw, name, init) IN
        [ctx |-> d.ctx,
         p   |-> Parts(<< >>, << >>,
                   << "// (" \o tag \o ") Demonstrate type: " \o kw,
                      d.decl,
                      "cout << \"" \o d.ctx.last_var \o " = \" << "
                          \o d.ctx.last_var \o " << endl;" >>)]

\* the occurrence tag built at the head of generate_parts_for_keyword_occurrence
occurrence_tag(occurrence_index, token_pos_in_input) ==
    "occurrence " \o to_string(occurrence_index)
        \o " (token " \o to_string(token_pos_in_input) \o ")"

\* tokenize(line): operator>> skips white space and reads up to the next
RECURSIVE tokenize(_)
tokenize(line) ==
    LET b == skip_front(line, 0, Len(line), TRUE) IN
        IF b = Len(line) THEN << >>
        ELSE LET rest == substr_from(line, b)
                 ends == {i \in 0..Len(rest) - 1 : isspace(At(rest, i))}
                 e    == IF ends = {} THEN Len(rest)
                         ELSE CHOOSE i \in ends : \A j \in ends : i <= j
             IN  << substr(rest, 0, e) >> \o tokenize(substr_from(rest, e))

\* the name handle_for takes from the word n of the initializer: n up to
\* its '=', normalized
for_word(n) ==
    normalize_token(IF find(n, "=", 0) = npos THEN n
                    ELSE substr(n, 0, find(n, "=", 0)))

\* the variable handle_for records: from the second word of the initializer;
\* "" when the initializer has fewer than two words
for_varname(init) ==
    IF Len(tokenize(init)) < 2 THEN "" ELSE for_word(tokenize(init)[2])

\* handle_for once its four answers are in: the context and the fragment
handle_for(ctx, tag, init, cond, incr, body_stmt) ==
    LET varname == for_varname(init) IN
        [ctx |-> IF varname = "" THEN ctx
                 ELSE [ctx EXCEPT
                         !.vars = [k \in DOMAIN ctx.vars \cup {varname} |->
                                      IF k = varname THEN tokenize(init)[1]
                                      ELSE ctx.vars[k]],
                         !.last_var = varname],
         p   |-> Parts(<< >>, << >>,
                   << "// (" \o tag \o ") Demonstrate for loop",
                      init \o ";",
                      "for (" \o init \o "; " \o cond \o "; " \o incr \o ") {",
                      "    " \o body_stmt,
                      "}" >>)]

\* the keywords generate_parts_for_keyword_occurrence has no handler for
FallbackKeywords == {"default"}

\* handle_generic_with_body once the pasted lines are in
handle_generic_with_body(tag, lines) ==
    IF \E i \in 1..Len(lines) : find(lines[i], "int main(", 0) # npos
    THEN Parts(<< >>, << join_lines(lines, "", "\n") >>,
               << "// (" \o tag
                    \o ") User provided a full program above; no extra main content added." >>)
    ELSE Parts(<< >>, << >>, lines)

\* build_occurrences without the test for an empty normalized token
RECURSIVE build_occurrences_any_key(_, _, _)
build_occurrences_any_key(tokens, i, store) ==
    IF i >= Len(tokens) THEN << >>
    ELSE LET norm == normalize_token(tokens[i + 1]) IN
         (IF norm \in cpp17_keywords \/ norm \in DOMAIN store
          THEN << <<norm, i + 1>> >> ELSE << >>)
             \o build_occurrences_any_key(tokens, i + 1, store)

\* the occurrence list main builds from the tokens i+1 .. size
RECURSIVE build_occurrences(_, _, _)
build_occurrences(tokens, i, store) ==
    IF i >= Len(tokens) THEN << >>
    ELSE LET norm == normalize_token(tokens[i + 1]) IN
         (IF norm # "" /\ (norm \in cpp17_keywords \/ norm \in DOMAIN store)
          THEN << <<norm, i + 1>> >> ELSE << >>)
             \o build_occurrences(tokens, i + 1, store)

(***************************************************************************)
(* Bounds and input alphabets                                              *)
(***************************************************************************)
\* top-level lines read in one run
MaxCmds == 1

\* lines accepted by one read_multiline_body call before the closing '.'
MaxBodyLines == 1

\* parameters one :edit may bring a keyword to
MaxParams == 2

\* lines of a user_keywords.db drawn for the loader on its own
MaxFileLines == 4

\* the lines such a file is made of
FileLineSet ==
    {"===KEYWORD:mykw===", "===KEYWORD:int===", "===KEYWORD: ===",
     "===KEYWORD:x=", "===PARAMS: a = 1=2 ,=3, b===", "===PARAMS:===",
     "===END===",
     "x={a}"}

RECURSIVE FilesOfLen(_)
FilesOfLen(n) ==
    IF n = 0 THEN {""}
    ELSE {l \o "\n" \o t : l \in FileLineSet, t \in FilesOfLen(n - 1)}

\* the files the loader is run on when it is examined on its own
LoadFiles ==
    {File(FALSE, "")}
        \cup {File(TRUE, t) : t \in UNION {FilesOfLen(n) : n \in 0..MaxFileLines}}

\* what out_map may hold when load_user_keywords is called
PriorMaps ==
    {EmptyMap, MapPut(EmptyMap, "old", UserKeyword("y\n", << <<"p", "0">> >>))}

\* the user_keywords.db found at startup of a run
StartFiles ==
    {File(FALSE, ""),
     File(TRUE, "===KEYWORD:mykw===\n===PARAMS:a=1===\nx={a}\n===END===\n"),
     File(TRUE, "junk\n===KEYWORD:int===\nint main({a})\n===END===\n===KEYWORD:Tail===\n#include <map>")}

\* one read from std::cin: a line, or end of input
Line(l) == [eof |-> FALSE, line |-> l]

Eof == [eof |-> TRUE, line |-> ""]

Answers(S) == {Line(l) : l \in S} \cup {Eof}

TopLines ==
    {"", ":add", ":list", ":search", ":search kw", ":help", ":bogus",
     ":edit", ":edit mykw", ":remove", ":remove MyKw,", ":remove int",
     "exit", "mykw int", "INT, foo", "...", "for default"}

NameAnswers == {"", "Int;", "--"}

YesNoAnswers == {"", "y"}

ParamsAnswers == {"", "a=1, b"}

BodyAnswers == {".", "===END==="}

EditKeyAnswers == {"", "mykw", "nokw"}

NewDefaultAnswers == {"", "1,2"}

ValueAnswers == {"", "{b}"}

SearchAnswers == {"", "x="}

VarNameAnswers == {"", "x1"}

ForInitAnswers == {"", "int x=1"}

FragmentAnswers == {".", "int main() {}"}

\* ask that returns the line as typed, empty or not
ask_verbatim(inp, def) == inp.line

\* ask(prompt, def) once the line is in
ask(inp, def) == IF inp.line = "" THEN def ELSE inp.line

(***************************************************************************)
(* State                                                                   *)
(***************************************************************************)
VARIABLES
    pc,               \* where the program stands: a prompt it waits at, or a step
    file,             \* user_keywords.db
    user_keywords,    \* main's map of the stored custom keywords
    out,              \* the last message written to std::cout
    cmds,             \* top-level lines read so far
    hist_mutations,   \* the adds, edits and removals completed so far
    hist_failed,      \* the save_user_keywords calls that returned false so far
    ld,               \* the locals of load_user_keywords
    def,              \* the locals of a definition flow (:add or inline)
    ed,               \* the locals of :edit, and the key of :remove
    ln,               \* the locals of the processing of one input line
    ex                \* an expansion examined on its own

vars ==
    << pc, file, user_keywords, out, cmds, hist_mutations, hist_failed,
       ld, def, ed, ln, ex >>

LdInit ==
    [ifs |-> << >>, line |-> "", in_entry |-> FALSE, current_key |-> "",
     current_params |-> << >>, buffer |-> ""]

DefInit == [name |-> "", params |-> << >>, lines |-> << >>]

EdInit ==
    [key |-> "", uk |-> UserKeyword("", << >>), i |-> 0, addp |-> "",
     lines |-> << >>]

NoValues == [k \in {} |-> ""]

LnInit ==
    [tokens |-> << >>, i |-> 0, occurrences |-> << >>, occ |-> 0,
     pidx |-> 0, values |-> NoValues, name |-> "",
     ctx |-> EmptyContext, aggregated |-> Parts(<< >>, << >>, << >>),
     p |-> Parts(<< >>, << >>, << >>), final_program |-> "",
     init |-> "", cond |-> "", incr |-> "", lines |-> << >>,
     hist_decl |-> << >>, hist_parts |-> << >>,
     hist_skipped |-> {}, hist_defined |-> {}, hist_prev |-> {}]

ExInit ==
    [uk |-> UserKeyword("", << >>), values |-> NoValues, tag |-> "",
     build |-> "", parts |-> Parts(<< >>, << >>, << >>), transformed |-> "",
     body |-> "", s |-> "", token |-> "", repl |-> "", pos |-> 0]

\* the loader's locals as the state LoadLine works on
LoadSt ==
    [in_entry |-> ld.in_entry, current_key |-> ld.current_key,
     current_params |-> ld.current_params, buffer |-> ld.buffer,
     out_map |-> user_keywords]

(***************************************************************************)
(* load_user_keywords, line by line                                        *)
(***************************************************************************)
\* out_map.clear(); std::ifstream ifs(path); if (!ifs) return;
LoadOpen ==
    /\ pc = "load_open"
    /\ user_keywords' = LoadBegin(user_keywords, file).out_map
    /\ IF LoadBegin(user_keywords, file).opened
       THEN /\ ld' = [LdInit EXCEPT !.ifs = getline_all(file.text, "\n")]
            /\ pc' = "load_loop"
       ELSE /\ ld' = LdInit
            /\ pc' = "top"
    /\ UNCHANGED << file, out, cmds, hist_mutations, hist_failed, def, ed, ln, ex >>

\* one iteration of while (std::getline(ifs, line))
LoadLineStep ==
    /\ pc = "load_loop"
    /\ ld.ifs # << >>
    /\ LET st == LoadLine(LoadSt, Head(ld.ifs)) IN
        /\ ld' = [ifs |-> Tail(ld.ifs), line |-> Head(ld.ifs),
                  in_entry |-> st.in_entry, current_key |-> st.current_key,
                  current_params |-> st.current_params, buffer |-> st.buffer]
        /\ user_keywords' = st.out_map
    /\ UNCHANGED << pc, file, out, cmds, hist_mutations, hist_failed, def, ed, ln, ex >>

\* std::getline fails: the commit after the loop, and the return
LoadEof ==
    /\ pc = "load_loop"
    /\ ld.ifs = << >>
    /\ user_keywords' = LoadCommitAtEof(LoadSt).out_map
    /\ pc' = "top"
    /\ UNCHANGED << file, out, cmds, hist_mutations, hist_failed, ld, def, ed, ln, ex >>

(***************************************************************************)
(* main: the top-level prompt                                              *)
(***************************************************************************)
\* the store and its file, with what is remembered about the saves
store == << file, user_keywords, hist_mutations, hist_failed >>

\* the locals of the flows below
locals == << def, ed, ln >>

\* a command or flow ends with `continue`: back to the top-level prompt
Continue(msg) ==
    /\ pc' = "top"
    /\ out' = msg

\* StoreAndSave that writes the file and leaves the map in memory as it was
StoreAndSave_disk_only(m, saved_msg, failed_msg) ==
    \E can_open \in BOOLEAN :
        LET r == save_user_keywords(m, file, can_open) IN
            /\ user_keywords' = user_keywords
            /\ file' = r.file
            /\ out' = IF r.ok THEN saved_msg ELSE failed_msg
            /\ hist_mutations' = hist_mutations + 1
            /\ hist_failed' = hist_failed + (IF r.ok THEN 0 ELSE 1)

\* StoreAndSave that undoes the in-memory change when the save fails
StoreAndSave_rollback(m, saved_msg, failed_msg) ==
    \E can_open \in BOOLEAN :
        LET r == save_user_keywords(m, file, can_open) IN
            /\ user_keywords' = IF r.ok THEN m ELSE user_keywords
            /\ file' = r.file
            /\ out' = IF r.ok THEN saved_msg ELSE failed_msg
            /\ hist_mutations' = hist_mutations + 1
            /\ hist_failed' = hist_failed + (IF r.ok THEN 0 ELSE 1)

\* the in-memory change m followed by save_user_keywords(user_keywords)
\* and the report of its result
StoreAndSave(m, saved_msg, failed_msg) ==
    \E can_open \in BOOLEAN :
        LET r == save_user_keywords(m, file, can_open) IN
            /\ user_keywords' = m
            /\ file' = r.file
            /\ out' = IF r.ok THEN saved_msg ELSE failed_msg
            /\ hist_mutations' = hist_mutations + 1
            /\ hist_failed' = hist_failed + (IF r.ok THEN 0 ELSE 1)

\* a top-level line is read: the locals of the previous pass are gone
ReadTop(inp) ==
    /\ pc = "top"
    /\ ~inp.eof
    /\ cmds < MaxCmds
    /\ cmds' = cmds + 1

\* the first word of the trimmed line, when the line is a command
Cmd(inp) ==
    LET trimmed == trim(inp.line) IN
        IF trimmed # "" /\ At(trimmed, 0) = ":" THEN tokenize(trimmed)[1] ELSE ""

\* the word after the command (iss >> key), empty when there is none
Arg(inp) ==
    LET words == tokenize(trim(inp.line)) IN
        IF Len(words) >= 2 THEN words[2] ELSE ""

TopEof ==
    /\ pc = "top"
    /\ pc' = "exit0"
    /\ out' = "EOF received at top-level. Exiting cleanly."
    /\ UNCHANGED << cmds, store, ld, locals, ex >>

TopBlank ==
    \E inp \in Answers(TopLines) :
        /\ ReadTop(inp)
        /\ trim(inp.line) = ""
        /\ Continue("")
        /\ def' = DefInit /\ ed' = EdInit /\ ln' = LnInit
        /\ UNCHANGED << store, ld, ex >>

TopAdd ==
    \E inp \in Answers(TopLines) :
        /\ ReadTop(inp)
        /\ Cmd(inp) \in {":add", ":define"}
        /\ pc' = "add_name"
        /\ out' = ""
        /\ def' = DefInit /\ ed' = EdInit /\ ln' = LnInit
        /\ UNCHANGED << store, ld, ex >>

TopList ==
    \E inp \in Answers(TopLines) :
        /\ ReadTop(inp)
        /\ Cmd(inp) = ":list"
        /\ Continue(IF DOMAIN user_keywords = {} THEN "No custom keywords stored."
                    ELSE "Stored custom keywords and parameters:")
        /\ def' = DefInit /\ ed' = EdInit /\ ln' = LnInit
        /\ UNCHANGED << store, ld, ex >>

\* the report :search ends with for the term
SearchReport(term) ==
    IF term = "" THEN "Empty search term; aborting search."
    ELSE IF \E k \in DOMAIN user_keywords :
                find(k \o " " \o join_lines([i \in 1..Len(user_keywords[k].params) |->
                         user_keywords[k].params[i][1] \o "="
                             \o user_keywords[k].params[i][2]], "", " ")
                       \o " " \o user_keywords[k].snippet, term, 0) # npos
         THEN "snippet preview"
         ELSE "No custom keywords matched"

TopSearch ==
    \E inp \in Answers(TopLines) :
        /\ ReadTop(inp)
        /\ Cmd(inp) = ":search"
        /\ IF Arg(inp) = ""
           THEN pc' = "search_term" /\ out' = ""
           ELSE Continue(SearchReport(Arg(inp)))
        /\ def' = DefInit /\ ed' = EdInit /\ ln' = LnInit
        /\ UNCHANGED << store, ld, ex >>

SearchTerm ==
    \E inp \in Answers(SearchAnswers) :
        /\ pc = "search_term"
        /\ IF inp.eof
           THEN pc' = "terminate" /\ out' = "terminate called after throwing an instance of 'EOFExit'"
           ELSE Continue(SearchReport(ask(inp, "")))
        /\ UNCHANGED << cmds, store, ld, locals, ex >>

TopHelp ==
    \E inp \in Answers(TopLines) :
        /\ ReadTop(inp)
        /\ Cmd(inp) = ":help"
        /\ Continue("C++17 standard keywords:")
        /\ def' = DefInit /\ ed' = EdInit /\ ln' = LnInit
        /\ UNCHANGED << store, ld, ex >>

TopUnknown ==
    \E inp \in Answers(TopLines) :
        /\ ReadTop(inp)
        /\ Cmd(inp) \notin {"", ":add", ":define", ":list", ":search", ":edit",
                            ":remove", ":help"}
        /\ Continue("Unknown command")
        /\ def' = DefInit /\ ed' = EdInit /\ ln' = LnInit
        /\ UNCHANGED << store, ld, ex >>

TopExit ==
    \E inp \in Answers(TopLines) :
        /\ ReadTop(inp)
        /\ trim(inp.line) = "exit"
        /\ pc' = "exit0"
        /\ out' = "Exit requested. Goodbye."
        /\ def' = DefInit /\ ed' = EdInit /\ ln' = LnInit
        /\ UNCHANGED << store, ld, ex >>

\* TopRemove that saves also when the name is not stored
TopRemove_always_saves ==
    \E inp \in Answers(TopLines) :
        /\ ReadTop(inp)
        /\ Cmd(inp) = ":remove"
        /\ pc' = "top"
        /\ LET key == normalize_token(Arg(inp)) IN
             IF Arg(inp) = ""
             THEN out' = "Usage: :remove <keyword>" /\ UNCHANGED store
             ELSE IF key \in DOMAIN user_keywords
             THEN StoreAndSave(MapErase(user_keywords, key),
                               "Removed and saved changes.",
                               "Removed but failed to save to disk.")
             ELSE StoreAndSave(user_keywords, "No such custom keyword",
                               "No such custom keyword")
        /\ ed' = [EdInit EXCEPT !.key = normalize_token(Arg(inp))]
        /\ def' = DefInit /\ ln' = LnInit
        /\ UNCHANGED << ld, ex >>

\* :remove <keyword>
TopRemove ==
    \E inp \in Answers(TopLines) :
        /\ ReadTop(inp)
        /\ Cmd(inp) = ":remove"
        /\ pc' = "top"
        /\ LET key == normalize_token(Arg(inp)) IN
             IF Arg(inp) = ""
             THEN out' = "Usage: :remove <keyword>" /\ UNCHANGED store
             ELSE IF key \in DOMAIN user_keywords
             THEN StoreAndSave(MapErase(user_keywords, key),
                               "Removed and saved changes.",
                               "Removed but failed to save to disk.")
             ELSE out' = "No such custom keyword" /\ UNCHANGED store
        /\ ed' = [EdInit EXCEPT !.key = normalize_token(Arg(inp))]
        /\ def' = DefInit /\ ln' = LnInit
        /\ UNCHANGED << ld, ex >>

(***************************************************************************)
(* main: :add / :define                                                    *)
(***************************************************************************)
EofInDefinition ==
    /\ pc' = "exit0"
    /\ out' = "EOF during custom keyword definition. Cancelling and exiting."

\* the snippet text built from the lines read_multiline_body returned
snippet_of(lines) == join_lines(lines, "", "\n")

\* the parameter vector built from the answer to "Provide parameters"
params_of(params_line) ==
    IF params_line # "" THEN parse_param_items(split_csv(params_line)) ELSE << >>

\* the collision test left out
conflicts_with_builtin_never(name) == FALSE

\* kwset.find(name) != kwset.end()
conflicts_with_builtin(name) == name \in cpp17_keywords

AddName ==
    \E inp \in Answers(NameAnswers) :
        /\ pc = "add_name"
        /\ IF inp.eof THEN EofInDefinition /\ UNCHANGED def
           ELSE LET name == normalize_token(ask(inp, "mykw")) IN
                /\ def' = [def EXCEPT !.name = name]
                /\ IF name = "" THEN Continue("Empty keyword name; aborting.")
                   ELSE IF conflicts_with_builtin(name)
                   THEN Continue("That name conflicts with a built-in C++17 keyword. Choose another name.")
                   ELSE IF name \in DOMAIN user_keywords
                   THEN pc' = "add_overwrite" /\ out' = ""
                   ELSE pc' = "add_params" /\ out' = ""
        /\ UNCHANGED << cmds, store, ld, ed, ln, ex >>

AddOverwrite ==
    \E inp \in Answers(YesNoAnswers) :
        /\ pc = "add_overwrite"
        /\ IF inp.eof THEN EofInDefinition
           ELSE IF ask(inp, "n") \in {"y", "Y"}
           THEN pc' = "add_params" /\ out' = ""
           ELSE Continue("Aborted.")
        /\ UNCHANGED << cmds, store, ld, locals, ex >>

AddParams ==
    \E inp \in Answers(ParamsAnswers) :
        /\ pc = "add_params"
        /\ IF inp.eof THEN EofInDefinition /\ UNCHANGED def
           ELSE /\ def' = [def EXCEPT !.params = params_of(ask(inp, "")),
                                      !.lines = << >>]
                /\ pc' = "add_body"
                /\ out' = "Paste the snippet that demonstrates this custom keyword."
        /\ UNCHANGED << cmds, store, ld, ed, ln, ex >>

\* one read of read_multiline_body, and what follows its closing '.'
AddBody ==
    \E inp \in Answers(BodyAnswers) :
        /\ pc = "add_body"
        /\ IF inp.eof THEN EofInDefinition /\ UNCHANGED << def, store >>
           ELSE IF inp.line = "."
           THEN /\ StoreAndSave(MapPut(user_keywords, def.name,
                                       UserKeyword(snippet_of(def.lines), def.params)),
                                "Custom keyword saved to disk.",
                                "Failed to save custom keywords to disk.")
                /\ pc' = "top"
                /\ UNCHANGED def
           ELSE /\ Len(def.lines) < MaxBodyLines
                /\ def' = [def EXCEPT !.lines = Append(@, inp.line)]
                /\ UNCHANGED << pc, out, store >>
        /\ UNCHANGED << cmds, ld, ed, ln, ex >>

(***************************************************************************)
(* main: :edit (its prompts run outside any try block)                     *)
(***************************************************************************)
\* EOFExit leaves main: std::terminate
UncaughtEof ==
    /\ pc' = "terminate"
    /\ out' = "terminate called after throwing an instance of 'EOFExit'"

\* the lookup of key and the start of the interactive edit
EditLookup(key) ==
    IF key \notin DOMAIN user_keywords
    THEN Continue("No such custom keyword") /\ ed' = [EdInit EXCEPT !.key = key]
    ELSE /\ ed' = [EdInit EXCEPT !.key = key, !.uk = user_keywords[key]]
         /\ pc' = IF user_keywords[key].params # << >> THEN "edit_param"
                  ELSE "edit_add_param"
         /\ out' = "Editing custom keyword. Current parameters:"

TopEdit ==
    \E inp \in Answers(TopLines) :
        /\ ReadTop(inp)
        /\ Cmd(inp) = ":edit"
        /\ IF Arg(inp) = ""
           THEN pc' = "edit_key" /\ out' = "" /\ ed' = EdInit
           ELSE EditLookup(Arg(inp))
        /\ def' = DefInit /\ ln' = LnInit
        /\ UNCHANGED << store, ld, ex >>

EditKey ==
    \E inp \in Answers(EditKeyAnswers) :
        /\ pc = "edit_key"
        /\ IF inp.eof THEN UncaughtEof /\ UNCHANGED ed
           ELSE IF ask(inp, "") = ""
           THEN Continue("No keyword supplied; aborting.") /\ UNCHANGED ed
           ELSE EditLookup(ask(inp, ""))
        /\ UNCHANGED << cmds, store, ld, def, ln, ex >>

\* EditParam that edits the stored entry in place instead of a copy
EditParam_in_place ==
    \E inp \in Answers(NewDefaultAnswers) :
        /\ pc = "edit_param"
        /\ IF inp.eof THEN UncaughtEof /\ UNCHANGED << ed, user_keywords >>
           ELSE LET newval == ask(inp, "") IN
                /\ ed' = [ed EXCEPT
                            !.uk.params[ed.i + 1][2] = IF newval # "" THEN newval ELSE @,
                            !.i = @ + 1]
                /\ user_keywords' = MapPut(user_keywords, ed.key, ed'.uk)
                /\ pc' = IF ed.i + 1 < Len(ed.uk.params) THEN "edit_param"
                         ELSE "edit_add_param"
                /\ UNCHANGED out
        /\ UNCHANGED << cmds, file, hist_mutations, hist_failed, ld, def, ln, ex >>

\* "New default for parameter" for uk.params[i]
EditParam ==
    \E inp \in Answers(NewDefaultAnswers) :
        /\ pc = "edit_param"
        /\ IF inp.eof THEN UncaughtEof /\ UNCHANGED ed
           ELSE LET newval == ask(inp, "") IN
                /\ ed' = [ed EXCEPT
                            !.uk.params[ed.i + 1][2] = IF newval # "" THEN newval ELSE @,
                            !.i = @ + 1]
                /\ pc' = IF ed.i + 1 < Len(ed.uk.params) THEN "edit_param"
                         ELSE "edit_add_param"
                /\ UNCHANGED out
        /\ UNCHANGED << cmds, store, ld, def, ln, ex >>

\* "Add a new parameter?" / "Add another parameter?"
EditAddParam ==
    \E inp \in Answers({"", "c=d"}) :
        /\ pc = "edit_add_param"
        /\ IF inp.eof THEN UncaughtEof /\ UNCHANGED ed
           ELSE IF ask(inp, "") = ""
           THEN pc' = "edit_replace" /\ out' = "Current snippet (lines):"
                    /\ ed' = [ed EXCEPT !.addp = ""]
           ELSE /\ Len(ed.uk.params) < MaxParams
                /\ ed' = [ed EXCEPT !.addp = ask(inp, "")]
                /\ pc' = "edit_default"
                /\ UNCHANGED out
        /\ UNCHANGED << cmds, store, ld, def, ln, ex >>

\* "Default value for" the new parameter
EditDefault ==
    \E inp \in Answers({"7"}) :
        /\ pc = "edit_default"
        /\ IF inp.eof THEN UncaughtEof /\ UNCHANGED ed
           ELSE /\ ed' = [ed EXCEPT !.uk.params = Append(@, <<ed.addp, ask(inp, "")>>)]
                /\ pc' = "edit_add_param"
                /\ UNCHANGED out
        /\ UNCHANGED << cmds, store, ld, def, ln, ex >>

\* user_keywords[key] = uk, the save and its report
EditWriteBack(uk) ==
    /\ StoreAndSave(MapPut(user_keywords, ed.key, uk),
                    "Custom keyword updated and saved.",
                    "Failed to save custom keywords to disk.")
    /\ pc' = "top"

EditReplace ==
    \E inp \in Answers(YesNoAnswers) :
        /\ pc = "edit_replace"
        /\ IF inp.eof THEN UncaughtEof /\ UNCHANGED << ed, store >>
           ELSE IF ask(inp, "n") \in {"y", "Y"}
           THEN /\ pc' = "edit_body"
                /\ out' = "Enter new snippet lines. Finish with a single '.' on its own line."
                /\ ed' = [ed EXCEPT !.lines = << >>]
                /\ UNCHANGED store
           ELSE EditWriteBack(ed.uk) /\ UNCHANGED ed
        /\ UNCHANGED << cmds, ld, def, ln, ex >>

EditBody ==
    \E inp \in Answers(BodyAnswers) :
        /\ pc = "edit_body"
        /\ IF inp.eof THEN UncaughtEof /\ UNCHANGED << ed, store >>
           ELSE IF inp.line = "."
           THEN /\ EditWriteBack([ed.uk EXCEPT !.snippet = snippet_of(ed.lines)])
                /\ ed' = [ed EXCEPT !.uk.snippet = snippet_of(ed.lines)]
           ELSE /\ Len(ed.lines) < MaxBodyLines
                /\ ed' = [ed EXCEPT !.lines = Append(@, inp.line)]
                /\ UNCHANGED << pc, out, store >>
        /\ UNCHANGED << cmds, ld, def, ln, ex >>

(***************************************************************************)
(* main: a line of keywords                                                *)
(***************************************************************************)
\* the locals of the pass over a line just read; the names the passes before
\* it had declared are remembered
NewPass(line) ==
    [LnInit EXCEPT !.tokens = tokenize(line),
                   !.hist_prev = ln.hist_prev \cup DOMAIN ln.ctx.vars]

\* the line is tokenized and the scan for undefined tokens begins
TopKeywords ==
    \E inp \in Answers(TopLines) :
        /\ ReadTop(inp)
        /\ Cmd(inp) = ""
        /\ trim(inp.line) \notin {"", "exit"}
        /\ ln' = NewPass(trim(inp.line))
        /\ pc' = "scan"
        /\ out' = ""
        /\ def' = DefInit /\ ed' = EdInit
        /\ UNCHANGED << store, ld, ex >>

\* normalize_token(tokens[i]) of the scan loop
ScanNorm == normalize_token(ln.tokens[ln.i + 1])

\* one iteration of the scan loop up to its prompt, or the end of the loop
ScanStep ==
    /\ pc = "scan"
    /\ IF ln.i >= Len(ln.tokens)
       THEN pc' = "resolve" /\ UNCHANGED ln
       ELSE IF /\ ScanNorm # ""
               /\ ScanNorm \notin cpp17_keywords
               /\ ScanNorm \notin DOMAIN user_keywords
               /\ (isalpha(At(ScanNorm, 0)) \/ At(ScanNorm, 0) = "_")
       THEN pc' = "scan_choice" /\ UNCHANGED ln
       ELSE pc' = "scan" /\ ln' = [ln EXCEPT !.i = @ + 1]
    /\ UNCHANGED << out, cmds, store, ld, def, ed, ex >>

\* EofInScan that goes back to the top-level prompt
EofInScan_to_top ==
    /\ pc' = "top"
    /\ out' = "EOF received during custom-keyword definition prompt. Cancelling and exiting."

EofInScan ==
    /\ pc' = "exit0"
    /\ out' = "EOF received during custom-keyword definition prompt. Cancelling and exiting."

\* "Define it now? (y to define / s to skip)"
ScanChoice ==
    \E inp \in Answers(YesNoAnswers) :
        /\ pc = "scan_choice"
        /\ IF inp.eof THEN EofInScan /\ UNCHANGED << def, ln >>
           ELSE IF ask(inp, "s") \in {"y", "Y"}
           THEN /\ def' = [def EXCEPT !.name = ScanNorm]
                /\ IF conflicts_with_builtin(ScanNorm)
                   THEN /\ pc' = "scan"
                        /\ out' = "That name conflicts with a built-in C++17 keyword. Skipping."
                        /\ ln' = [ln EXCEPT !.i = @ + 1]
                   ELSE pc' = "scan_params" /\ out' = "" /\ UNCHANGED ln
           ELSE /\ pc' = "scan"
                /\ out' = "Skipping token"
                /\ ln' = [ln EXCEPT !.i = @ + 1,
                                    !.hist_skipped = @ \cup {ln.i + 1}]
                /\ UNCHANGED def
        /\ UNCHANGED << cmds, store, ld, ed, ex >>

ScanParams ==
    \E inp \in Answers(ParamsAnswers) :
        /\ pc = "scan_params"
        /\ IF inp.eof THEN EofInScan /\ UNCHANGED def
           ELSE /\ def' = [def EXCEPT !.params = params_of(ask(inp, "")),
                                      !.lines = << >>]
                /\ pc' = "scan_body"
                /\ out' = "Paste the snippet that demonstrates this custom keyword."
        /\ UNCHANGED << cmds, store, ld, ed, ln, ex >>

ScanBody ==
    \E inp \in Answers(BodyAnswers) :
        /\ pc = "scan_body"
        /\ IF inp.eof THEN EofInScan /\ UNCHANGED << def, ln, store >>
           ELSE IF inp.line = "."
           THEN /\ StoreAndSave(MapPut(user_keywords, def.name,
                                       UserKeyword(snippet_of(def.lines), def.params)),
                                "Custom keyword saved to disk.",
                                "Failed to save custom keywords to disk.")
                /\ pc' = "scan"
                /\ ln' = [ln EXCEPT !.i = @ + 1,
                                    !.hist_defined = @ \cup {def.name}]
                /\ UNCHANGED def
           ELSE /\ Len(def.lines) < MaxBodyLines
                /\ def' = [def EXCEPT !.lines = Append(@, inp.line)]
                /\ UNCHANGED << pc, out, ln, store >>
        /\ UNCHANGED << cmds, ld, ed, ex >>

\* the occurrence list is built; without occurrences the line is dropped
Resolve ==
    /\ pc = "resolve"
    /\ LET occurrences == build_occurrences(ln.tokens, 0, user_keywords) IN
        /\ ln' = [ln EXCEPT !.occurrences = occurrences, !.occ = 0,
                            !.ctx = EmptyContext,
                            !.aggregated = Parts(<< >>, << >>, << >>)]
        /\ IF occurrences = << >>
           THEN Continue("No recognized C++17 or user-defined keyword found in the input. Try again.")
           ELSE pc' = "dispatch" /\ out' = "Detected occurrences in order:"
    /\ UNCHANGED << cmds, store, ld, def, ed, ex >>

\* the keyword, tag and stored macro of the occurrence being dispatched
OccKw == ln.occurrences[ln.occ + 1][1]

OccTag == occurrence_tag(ln.occ + 1, ln.occurrences[ln.occ + 1][2])

\* append_parts(aggregated, p) and the step to the next occurrence
Aggregate(p) ==
    [ln EXCEPT !.p = p, !.aggregated = append_parts(@, p), !.occ = @ + 1,
               !.hist_parts = Append(@, p)]

\* generate_parts_for_keyword_occurrence is entered for occurrence occ + 1,
\* and runs to its first prompt or, for a macro without parameters, to its end
Dispatch ==
    /\ pc = "dispatch"
    /\ ln.occ < Len(ln.occurrences)
    /\ IF OccKw \in DOMAIN user_keywords
       THEN IF user_keywords[OccKw].params = << >>
            THEN /\ ln' = [Aggregate(parts_from_user_snippet_with_params(
                                         user_keywords[OccKw], NoValues, OccTag))
                             EXCEPT !.values = NoValues, !.pidx = 0]
                 /\ pc' = "dispatch"
            ELSE /\ ln' = [ln EXCEPT !.values = NoValues, !.pidx = 0]
                 /\ pc' = "macro_param"
       ELSE /\ OccKw \in TypeLikeKeywords \cup {"for"} \cup FallbackKeywords
            /\ pc' = IF OccKw \in TypeLikeKeywords THEN "type_name"
                     ELSE IF OccKw = "for" THEN "for_init"
                     ELSE "generic_body"
            /\ ln' = [ln EXCEPT !.lines = << >>]
    /\ out' = "--- Asking about keyword occurrence ---"
    /\ UNCHANGED << cmds, store, ld, def, ed, ex >>

\* EofInFollowUp that goes on with the dispatch loop
EofInFollowUp_resume ==
    /\ pc' = "dispatch"
    /\ out' = "EOF received during follow-up prompts. Cancelling and exiting."

EofInFollowUp ==
    /\ pc' = "exit0"
    /\ out' = "EOF received during follow-up prompts. Cancelling and exiting."

\* "Value for parameter" pidx + 1 of the macro; after the last one the
\* snippet is expanded and the fragment appended
MacroParam ==
    \E inp \in Answers(ValueAnswers) :
        /\ pc = "macro_param"
        /\ IF inp.eof THEN EofInFollowUp /\ UNCHANGED ln
           ELSE LET uk     == user_keywords[OccKw]
                    pname  == uk.params[ln.pidx + 1][1]
                    pdef   == uk.params[ln.pidx + 1][2]
                    values == [k \in DOMAIN ln.values \cup {pname} |->
                                  IF k = pname THEN ask(inp, pdef) ELSE ln.values[k]]
                IN  /\ UNCHANGED out
                    /\ IF ln.pidx + 1 < Len(uk.params)
                       THEN /\ ln' = [ln EXCEPT !.values = values, !.pidx = @ + 1]
                            /\ pc' = "macro_param"
                       ELSE /\ ln' = [Aggregate(parts_from_user_snippet_with_params(
                                                    uk, values, OccTag))
                                        EXCEPT !.values = values, !.pidx = @ + 1]
                            /\ pc' = "dispatch"
        /\ UNCHANGED << cmds, store, ld, def, ed, ex >>

\* handle_type_like: "Variable name for type"
TypeName ==
    \E inp \in Answers(VarNameAnswers) :
        /\ pc = "type_name"
        /\ IF inp.eof THEN EofInFollowUp /\ UNCHANGED ln
           ELSE /\ ln' = [ln EXCEPT !.name = ask(inp, "x")]
                /\ pc' = "type_init"
                /\ UNCHANGED out
        /\ UNCHANGED << cmds, store, ld, def, ed, ex >>

\* handle_type_like: "Initial value for", the declaration and the fragment
TypeInit ==
    \E inp \in Answers({""}) :
        /\ pc = "type_init"
        /\ IF inp.eof THEN EofInFollowUp /\ UNCHANGED ln
           ELSE LET h == handle_type_like(ln.ctx, OccKw, OccTag, ln.name,
                                          ask(inp, type_like_default(OccKw)))
                IN  /\ ln' = [Aggregate(h.p) EXCEPT
                                 !.ctx = h.ctx,
                                 !.hist_decl = Append(@, << ln.name, h.ctx.last_var >>)]
                    /\ pc' = "dispatch"
                    /\ UNCHANGED out
        /\ UNCHANGED << cmds, store, ld, def, ed, ex >>

\* handle_for: "Initializer for for-loop"
ForInit ==
    \E inp \in Answers(ForInitAnswers) :
        /\ pc = "for_init"
        /\ IF inp.eof THEN EofInFollowUp /\ UNCHANGED ln
           ELSE /\ ln' = [ln EXCEPT !.init = ask(inp, "int i = 0")]
                /\ pc' = "for_cond"
                /\ UNCHANGED out
        /\ UNCHANGED << cmds, store, ld, def, ed, ex >>

\* handle_for: "Condition for for-loop"
ForCond ==
    \E inp \in Answers({""}) :
        /\ pc = "for_cond"
        /\ IF inp.eof THEN EofInFollowUp /\ UNCHANGED ln
           ELSE /\ ln' = [ln EXCEPT !.cond = ask(inp, "i < 5")]
                /\ pc' = "for_incr"
                /\ UNCHANGED out
        /\ UNCHANGED << cmds, store, ld, def, ed, ex >>

\* handle_for: "Increment expression"
ForIncr ==
    \E inp \in Answers({""}) :
        /\ pc = "for_incr"
        /\ IF inp.eof THEN EofInFollowUp /\ UNCHANGED ln
           ELSE /\ ln' = [ln EXCEPT !.incr = ask(inp, "++i")]
                /\ pc' = "for_body"
                /\ UNCHANGED out
        /\ UNCHANGED << cmds, store, ld, def, ed, ex >>

\* handle_for: "Body statement", the recorded variable and the fragment
ForBody ==
    \E inp \in Answers({""}) :
        /\ pc = "for_body"
        /\ IF inp.eof THEN EofInFollowUp /\ UNCHANGED ln
           ELSE LET h == handle_for(ln.ctx, OccTag, ln.init, ln.cond, ln.incr,
                                    ask(inp, "cout << i << endl;"))
                IN  /\ ln' = [Aggregate(h.p) EXCEPT !.ctx = h.ctx]
                    /\ pc' = "dispatch"
                    /\ UNCHANGED out
        /\ UNCHANGED << cmds, store, ld, def, ed, ex >>

\* handle_generic_with_body: one line of read_multiline_body; the closing
\* '.' ends the handler and its fragment is appended
GenericBody ==
    \E inp \in Answers(FragmentAnswers) :
        /\ pc = "generic_body"
        /\ IF inp.eof THEN EofInFollowUp /\ UNCHANGED ln
           ELSE IF inp.line = "."
           THEN /\ ln' = Aggregate(handle_generic_with_body(OccTag, ln.lines))
                /\ pc' = "dispatch"
                /\ UNCHANGED out
           ELSE /\ Len(ln.lines) < MaxBodyLines
                /\ ln' = [ln EXCEPT !.lines = Append(@, inp.line)]
                /\ UNCHANGED << pc, out >>
        /\ UNCHANGED << cmds, store, ld, def, ed, ex >>

\* every occurrence is done: the program is assembled and shown
Assemble ==
    /\ pc = "dispatch"
    /\ ln.occ = Len(ln.occurrences)
    /\ ln' = [ln EXCEPT !.final_program =
                make_program_from_body_lines(ln.aggregated.body,
                                             ln.aggregated.includes,
                                             ln.aggregated.top)]
    /\ Continue("--- Generated C++17 program (single integrated example) ---")
    /\ UNCHANGED << cmds, store, ld, def, ed, ex >>

(***************************************************************************)
(* The run of the program                                                  *)
(***************************************************************************)
Init ==
    /\ pc = "load_open"
    /\ file \in StartFiles
    /\ user_keywords = EmptyMap
    /\ out = ""
    /\ cmds = 0
    /\ hist_mutations = 0
    /\ hist_failed = 0
    /\ ld = LdInit
    /\ def = DefInit
    /\ ed = EdInit
    /\ ln = LnInit
    /\ ex = ExInit

Next ==
    \/ LoadOpen \/ LoadLineStep \/ LoadEof
    \/ TopEof \/ TopBlank \/ TopAdd \/ TopList \/ TopSearch \/ SearchTerm
    \/ TopHelp \/ TopUnknown \/ TopExit \/ TopRemove
    \/ AddName \/ AddOverwrite \/ AddParams \/ AddBody
    \/ TopEdit \/ EditKey \/ EditParam \/ EditAddParam \/ EditDefault
    \/ EditReplace \/ EditBody
    \/ TopKeywords \/ ScanStep \/ ScanChoice \/ ScanParams \/ ScanBody
    \/ Resolve \/ Dispatch \/ MacroParam \/ TypeName \/ TypeInit
    \/ ForInit \/ ForCond \/ ForIncr \/ ForBody \/ GenericBody \/ Assemble

Spec == Init /\ [][Next]_vars

(***************************************************************************)
(* load_user_keywords on its own: any file, any previous content of the    *)
(* output map                                                              *)
(***************************************************************************)
InitLoad ==
    /\ pc = "load_open"
    /\ file \in LoadFiles
    /\ user_keywords \in PriorMaps
    /\ out = ""
    /\ cmds = 0
    /\ hist_mutations = 0
    /\ hist_failed = 0
    /\ ld = LdInit
    /\ def = DefInit
    /\ ed = EdInit
    /\ ln = LnInit
    /\ ex = ExInit

NextLoad == LoadOpen \/ LoadLineStep \/ LoadEof

SpecLoad == InitLoad /\ [][NextLoad]_vars

(***************************************************************************)
(* One keyword line on its own: the pass of main from the token scan to    *)
(* the assembled program, for a line just read and a store loaded before   *)
(***************************************************************************)
\* the stores the line is processed against
LineStores ==
    {EmptyMap,
     MapPut(MapPut(EmptyMap, "mykw",
                   UserKeyword("#include <map>\n#include map\nx={a}{b}\n",
                               << <<"a", "1">>, <<"b", "2">> >>)),
            "inc",
            UserKeyword("# include <set>\n#include \"local.h\"\n#include <iostream>\n",
                        << >>)),
     MapPut(EmptyMap, "", UserKeyword("y\n", << >>))}

\* the trimmed keyword lines
LineSet ==
    {"int int int", "for for", "int for", "default int", "mykw inc mykw",
     "foo foo", "x ... INT, -- int", "1st"}

InitLine ==
    /\ pc = "scan"
    /\ \E line \in LineSet : ln = [LnInit EXCEPT !.tokens = tokenize(line)]
    /\ user_keywords \in LineStores
    /\ file = File(TRUE, save_text(user_keywords))
    /\ out = ""
    /\ cmds = 1
    /\ hist_mutations = 0
    /\ hist_failed = 0
    /\ ld = LdInit
    /\ def = DefInit
    /\ ed = EdInit
    /\ ex = ExInit

NextLine ==
    \/ ScanStep \/ ScanChoice \/ ScanParams \/ ScanBody
    \/ Resolve \/ Dispatch \/ MacroParam \/ TypeName \/ TypeInit
    \/ ForInit \/ ForCond \/ ForIncr \/ ForBody \/ GenericBody \/ Assemble

SpecLine == InitLine /\ [][NextLine]_vars

(***************************************************************************)
(* replace_all on its own, one iteration of its loop per step              *)
(***************************************************************************)
InitReplace ==
    /\ pc = "replace"
    /\ ex \in {[ExInit EXCEPT !.body = body, !.s = body, !.token = token,
                              !.repl = repl] :
                  body \in {"", "{a}", "x{a}{a}y", "{a}{b}{a}", "aaa", "{{a}}"},
                  token \in {"", "{a}", "{b}", "aa"},
                  repl \in {"", "x", "{a}", "{a}{a}", "a{b}"}}
    /\ file = File(FALSE, "")
    /\ user_keywords = EmptyMap
    /\ out = ""
    /\ cmds = 0
    /\ hist_mutations = 0
    /\ hist_failed = 0
    /\ ld = LdInit
    /\ def = DefInit
    /\ ed = EdInit
    /\ ln = LnInit

\* if (token.empty()) return; size_t pos = 0;
ReplaceBegin ==
    /\ pc = "replace"
    /\ IF ex.token = ""
       THEN pc' = "replaced" /\ UNCHANGED ex
       ELSE pc' = "replace_loop" /\ ex' = [ex EXCEPT !.pos = 0]
    /\ UNCHANGED << file, user_keywords, out, cmds, hist_mutations, hist_failed,
                    ld, def, ed, ln >>

\* the loop condition and, when the token is found, one run of the loop body
ReplaceStep ==
    /\ pc = "replace_loop"
    /\ IF find(ex.s, ex.token, ex.pos) = npos
       THEN pc' = "replaced" /\ ex' = [ex EXCEPT !.pos = npos]
       ELSE /\ ex' = [ex EXCEPT
                        !.s = substr(ex.s, 0, find(ex.s, ex.token, ex.pos))
                                 \o ex.repl
                                 \o substr_from(ex.s, find(ex.s, ex.token, ex.pos)
                                                         + Len(ex.token)),
                        !.pos = next_pos(find(ex.s, ex.token, ex.pos), ex.repl)]
            /\ UNCHANGED pc
    /\ UNCHANGED << file, user_keywords, out, cmds, hist_mutations, hist_failed,
                    ld, def, ed, ln >>

NextReplace == ReplaceBegin \/ ReplaceStep

\* the call runs on: nothing else is scheduled that could starve it
SpecReplaceRun == InitReplace /\ [][NextReplace]_vars /\ WF_vars(NextReplace)

(***************************************************************************)
(* Keyword lines one after the other: the top-level prompt reads a line,   *)
(* the pass of that line runs, and the prompt reads the next               *)
(***************************************************************************)
MaxLines == 2

InitPasses ==
    /\ pc = "top"
    /\ ln = LnInit
    /\ user_keywords = EmptyMap
    /\ file = File(TRUE, save_text(user_keywords))
    /\ out = ""
    /\ cmds = 0
    /\ hist_mutations = 0
    /\ hist_failed = 0
    /\ ld = LdInit
    /\ def = DefInit
    /\ ed = EdInit
    /\ ex = ExInit

\* the top-level prompt reads a line of keywords
PassLine ==
    \E line \in {"int for", "foo default"} :
        /\ pc = "top"
        /\ cmds < MaxLines
        /\ cmds' = cmds + 1
        /\ ln' = NewPass(line)
        /\ pc' = "scan"
        /\ out' = ""
        /\ def' = DefInit /\ ed' = EdInit
        /\ UNCHANGED << store, ld, ex >>

NextPasses == PassLine \/ NextLine

SpecPasses == InitPasses /\ [][NextPasses]_vars

(***************************************************************************)
(* parts_from_user_snippet_with_params on its own                          *)
(***************************************************************************)
ExSnippets ==
    {"x={a} y={b}\n", "{a}{a}\n{b}\n", "int main() {}\n", "int {a}) {}\n",
     "#include <map>\n# include <set>\n{b}\n", ""}

ExParams ==
    {<< >>, << <<"a", "1">>, <<"b", "2">> >>, << <<"b", "2">>, <<"a", "1">> >>,
     << <<"a", "main(">> >>}

ExValues ==
    {NoValues, [k \in {"a"} |-> "9"], [k \in {"a"} |-> "{b}"],
     [k \in {"a", "b"} |-> IF k = "a" THEN "main(" ELSE "{a}"]}

InitExpand ==
    /\ pc = "expand"
    /\ ex \in {[ExInit EXCEPT !.uk = UserKeyword(snippet, params),
                              !.values = values,
                              !.tag = occurrence_tag(1, 1)] :
                  snippet \in ExSnippets, params \in ExParams, values \in ExValues}
    /\ file = File(FALSE, "")
    /\ user_keywords = EmptyMap
    /\ out = ""
    /\ cmds = 0
    /\ hist_mutations = 0
    /\ hist_failed = 0
    /\ ld = LdInit
    /\ def = DefInit
    /\ ed = EdInit
    /\ ln = LnInit

\* the expander of snippet_gen.cpp is applied
Expand ==
    /\ pc = "expand"
    /\ ex' = [ex EXCEPT
                !.build = "snippet_gen.cpp",
                !.transformed = substitute_params(ex.uk.snippet, ex.uk.params, ex.values),
                !.parts = parts_from_user_snippet_with_params(ex.uk, ex.values, ex.tag)]
    /\ pc' = "expanded"
    /\ UNCHANGED << file, user_keywords, out, cmds, hist_mutations, hist_failed,
                    ld, def, ed, ln >>

\* the expander of the earlier variant of the program is applied
ExpandV0 ==
    /\ pc = "expand"
    /\ ex' = [ex EXCEPT
                !.build = "part_000",
                !.transformed = substitute_params(ex.uk.snippet, ex.uk.params, ex.values),
                !.parts = parts_from_user_snippet_with_params_v0(ex.uk, ex.values, ex.tag)]
    /\ pc' = "expanded"
    /\ UNCHANGED << file, user_keywords, out, cmds, hist_mutations, hist_failed,
                    ld, def, ed, ln >>

NextExpand == Expand \/ ExpandV0

SpecExpand == InitExpand /\ [][NextExpand]_vars

(***************************************************************************)
(* Properties                                                              *)
(***************************************************************************)
\* a macro or parameter name the format can carry: no "===", no ",", no
\* white space at either end
NameCarried(n) ==
    find(n, "===", 0) = npos /\ find(n, ",", 0) = npos /\ trim(n) = n

NamesCarried(m) ==
    \A k \in DOMAIN m :
        /\ NameCarried(k)
        /\ \A i \in 1..Len(m[k].params) : NameCarried(m[k].params[i][1])

\* C1: for every mapping whose macro and parameter names are free of the
\* reserved text, loading the file that save_user_keywords writes for it gives
\* the same mapping back, whatever the bodies and the defaults are.
C1_RoundTrip ==
    NamesCarried(user_keywords)
        => load_user_keywords(EmptyMap,
               save_user_keywords(user_keywords, file, TRUE).file) = user_keywords

\* C2: once a mutation has been completed and no save has failed, the file
\* holds exactly the serialization of the store in memory.
C2_Lockstep ==
    (hist_mutations > 0 /\ hist_failed = 0)
        => (file.exists /\ file.text = save_text(user_keywords))

C2_Witness ==
    /\ hist_mutations > 0
    /\ hist_failed = 0
    /\ pc = "top"
    /\ DOMAIN user_keywords = {"mykw", "foo"}
    /\ file.text = save_text(user_keywords)

SaveFailureReports ==
    {"Failed to save custom keywords to disk.", "Removed but failed to save to disk."}

\* C3: a step in which the save fails keeps the change in memory (the entry
\* defined or edited is stored, the key removed is gone), reports the failure
\* and goes on to the next prompt; and the store changes in no step other
\* than a completed mutation.
C3_SaveFailureKept ==
    [][ /\ (hist_failed' > hist_failed) =>
            /\ out' \in SaveFailureReports
            /\ pc' \in {"top", "scan"}
            /\ pc \in {"add_body", "scan_body"} =>
                   /\ def.name \in DOMAIN user_keywords'
                   /\ user_keywords'[def.name] =
                          UserKeyword(snippet_of(def.lines), def.params)
            /\ pc \in {"edit_replace", "edit_body"} =>
                   /\ ed.key \in DOMAIN user_keywords'
                   /\ user_keywords'[ed.key].params = ed.uk.params
                   /\ user_keywords'[ed.key].snippet =
                          (IF pc = "edit_body" THEN snippet_of(ed.lines)
                           ELSE ed.uk.snippet)
            /\ pc = "top" =>
                   /\ ed'.key \in DOMAIN user_keywords
                   /\ DOMAIN user_keywords' = DOMAIN user_keywords \ {ed'.key}
        /\ (hist_mutations' = hist_mutations /\ pc \notin {"load_open", "load_loop"})
              => user_keywords' = user_keywords
      ]_vars

C3_Witness ==
    /\ hist_failed > 0
    /\ pc = "top"
    /\ out = "Failed to save custom keywords to disk."
    /\ def.name = "mykw"
    /\ "mykw" \in DOMAIN user_keywords
    /\ ~file.exists

\* C4: when the file cannot be opened, load_user_keywords returns at once with
\* an empty map, whatever the map held before, and reports nothing.
C4_LoadFailsSoft ==
    (pc # "load_open" /\ ~file.exists)
        => (pc = "top" /\ user_keywords = EmptyMap /\ out = "")

C4_Witness ==
    pc = "top" /\ ~file.exists /\ user_keywords = EmptyMap /\ ld = LdInit

\* C5: a definition whose normalized name is a C++17 keyword is rejected with
\* the conflict message, and the store and the file stay as they were.
C5_BuiltinNameRejected ==
    [][ (pc \in {"add_name", "scan_choice"} /\ def'.name \in cpp17_keywords) =>
            /\ begins_with(out', "That name conflicts with a built-in C++17 keyword.")
            /\ pc' \in {"top", "scan"}
            /\ user_keywords' = user_keywords
            /\ file' = file
      ]_vars

C5_Witness ==
    /\ pc = "top"
    /\ def.name = "int"
    /\ out = "That name conflicts with a built-in C++17 keyword. Choose another name."

\* C6: no name is at once a key of the store and a C++17 keyword.
C6_StoreDisjointFromBuiltins ==
    DOMAIN user_keywords \cap cpp17_keywords = {}

\* the entry the loader holds open when the file ends is in the map
OpenEntryCommitted ==
    /\ trim(ld.current_key) \in DOMAIN user_keywords
    /\ user_keywords[trim(ld.current_key)] = UserKeyword(ld.buffer, ld.current_params)

\* C7 as claimed: when the file ends inside an open block, that block is
\* committed with the parameters and body lines accumulated so far.
C7_OpenBlockCommitted ==
    (pc = "top" /\ ld.in_entry) => OpenEntryCommitted

\* C7 as amended: when the file ends inside an open block whose name is not
\* empty, that block is committed with the parameters and body lines
\* accumulated so far, next to the entries committed before it.
C7_NamedOpenBlockCommitted ==
    /\ []((pc = "top" /\ ld.in_entry /\ ld.current_key # "") => OpenEntryCommitted)
    /\ [][ (pc = "load_loop" /\ ld.ifs = << >>) =>
               \A k \in DOMAIN user_keywords :
                   /\ k \in DOMAIN user_keywords'
                   /\ (~ld.in_entry \/ k # trim(ld.current_key))
                          => user_keywords'[k] = user_keywords[k]
         ]_vars

C7_Witness ==
    /\ pc = "top"
    /\ ld.in_entry
    /\ ld.current_key = "int"
    /\ DOMAIN user_keywords = {"mykw", "int"}
    /\ user_keywords["int"] = UserKeyword("x={a}\n", << >>)

\* a ===KEYWORD: or ===PARAMS: line with no closing "===" after the colon,
\* or with nothing between the colon and the closing "==="
MalformedMarker(line) ==
    \E marker \in {"===KEYWORD:", "===PARAMS:"} :
        /\ begins_with(line, marker)
        /\ rfind(substr_from(line, Len(marker)), "===") \in {npos, 0}

\* what the loader has parsed so far
Parsed ==
    << ld.in_entry, ld.current_key, ld.current_params, ld.buffer, user_keywords >>

\* C8 as claimed: a malformed marker line changes nothing of what the loader
\* has parsed (it enters no body) and the load goes on with the next line.
C8_MalformedDropped ==
    [][ (pc = "load_loop" /\ ld.ifs # << >> /\ MalformedMarker(Head(ld.ifs))) =>
            /\ Parsed' = Parsed
            /\ pc' = "load_loop"
            /\ ld'.ifs = Tail(ld.ifs)
      ]_vars

\* C8 as amended: a malformed ===PARAMS: line, and a malformed ===KEYWORD:
\* line met outside a block, change nothing of what the loader has parsed; a
\* malformed ===KEYWORD: line met inside an open block is appended to that
\* block's body like any other line; in both cases the load goes on.
C8_MalformedDroppedOrBody ==
    [][ (pc = "load_loop" /\ ld.ifs # << >> /\ MalformedMarker(Head(ld.ifs))) =>
            /\ pc' = "load_loop"
            /\ ld'.ifs = Tail(ld.ifs)
            /\ IF ld.in_entry /\ begins_with(Head(ld.ifs), "===KEYWORD:")
               THEN /\ ld'.buffer = ld.buffer \o Head(ld.ifs) \o "\n"
                    /\ << ld'.in_entry, ld'.current_key, ld'.current_params,
                          user_keywords' >>
                         = << ld.in_entry, ld.current_key, ld.current_params,
                              user_keywords >>
               ELSE Parsed' = Parsed
      ]_vars

C8_Witness ==
    /\ pc = "top"
    /\ file.text = "===KEYWORD:mykw===\n===PARAMS:===\nx={a}\n===END===\n"
    /\ DOMAIN user_keywords = {"mykw"}
    /\ user_keywords["mykw"] = UserKeyword("x={a}\n", << >>)

\* the pieces of s between the occurrences of token, found left to right
\* without overlap
RECURSIVE PiecesBetween(_, _)
PiecesBetween(s, token) ==
    LET hits == {i \in 0..Len(s) - Len(token) : substr(s, i, Len(token)) = token} IN
        IF hits = {} THEN << s >>
        ELSE LET h == CHOOSE i \in hits : \A j \in hits : i <= j IN
             << substr(s, 0, h) >> \o PiecesBetween(substr_from(s, h + Len(token)), token)

RECURSIVE Joined(_, _)
Joined(pieces, sep) ==
    IF Len(pieces) = 1 THEN pieces[1]
    ELSE pieces[1] \o sep \o Joined(Tail(pieces), sep)

\* the value expansion uses for parameter i: the override, else the default
ValueUsed(params, values, i) ==
    IF params[i][1] \in DOMAIN values THEN values[params[i][1]] ELSE params[i][2]

\* the body after the parameters 1..n, in declared order, have each had
\* every occurrence of their placeholder replaced by their value
RECURSIVE Substituted(_, _, _, _)
Substituted(body, params, values, n) ==
    IF n = 0 THEN body
    ELSE Joined(PiecesBetween(Substituted(body, params, values, n - 1),
                              "{" \o params[n][1] \o "}"),
                ValueUsed(params, values, n))

\* C9: expansion replaces, parameter by parameter in declared order, every
\* occurrence of {p} by the override for p when there is one and by the
\* default otherwise; a=1,b=2 with body "x={a} y={b}" gives "x=1 y=2", and
\* "x=9 y=2" with the override a=9.
C9_Substitution ==
    pc = "expanded" =>
        /\ ex.transformed =
               Substituted(ex.uk.snippet, ex.uk.params, ex.values, Len(ex.uk.params))
        /\ (/\ ex.uk = UserKeyword("x={a} y={b}\n", << <<"a", "1">>, <<"b", "2">> >>)
            /\ ex.values = NoValues)
               => (ex.transformed = "x=1 y=2\n" /\ ex.parts.body[2] = "x=1 y=2")
        /\ (/\ ex.uk = UserKeyword("x={a} y={b}\n", << <<"a", "1">>, <<"b", "2">> >>)
            /\ ex.values = [k \in {"a"} |-> "9"])
               => (ex.transformed = "x=9 y=2\n" /\ ex.parts.body[2] = "x=9 y=2")

C9_Witness ==
    /\ pc = "expanded"
    /\ ex.uk = UserKeyword("x={a} y={b}\n", << <<"a", "1">>, <<"b", "2">> >>)
    /\ ex.values = [k \in {"a"} |-> "9"]
    /\ ex.parts.body[2] = "x=9 y=2"

\* C10: a body that holds "int main(" after substitution expands to a
\* fragment without includes and without top-level declarations, whose body
\* is error comment lines only.
C10_EntryPointRejected ==
    (pc = "expanded" /\ find(ex.transformed, "int main(", 0) # npos) =>
        /\ ex.parts.includes = << >>
        /\ ex.parts.top = << >>
        /\ ex.parts.body # << >>
        /\ \A i \in 1..Len(ex.parts.body) :
               /\ begins_with(ex.parts.body[i], "//")
               /\ find(ex.parts.body[i], ex.transformed, 0) = npos
        /\ \E i \in 1..Len(ex.parts.body) : find(ex.parts.body[i], "ERROR", 0) # npos

\* the declare_variable calls of the pass so far: << base name, final name >>
Declared == ln.hist_decl

\* C11 as claimed: the final names are pairwise distinct, and the call that
\* follows k earlier calls with the same base name returns the base name for
\* k = 0 and the base name suffixed with k otherwise.
C11_SuffixCountsCalls ==
    \A j \in 1..Len(Declared) :
        LET k == Cardinality({i \in 1..j - 1 : Declared[i][1] = Declared[j][1]}) IN
            /\ Declared[j][2] = IF k = 0 THEN Declared[j][1]
                                ELSE Declared[j][1] \o to_string(k)
            /\ \A i \in 1..j - 1 : Declared[i][2] # Declared[j][2]

\* C11 as amended: the final names are pairwise distinct and all in the
\* declared-variables map; each call returns its base name when that name is
\* free, and otherwise the base name with the least suffix 1, 2, 3, ... that
\* gives a free name; it adds that name to the map and sets last_var to it.
C11_LeastFreeSuffix ==
    /\ [](\A j \in 1..Len(Declared) :
             /\ Declared[j][2] \in DOMAIN ln.ctx.vars
             /\ \A i \in 1..j - 1 : Declared[i][2] # Declared[j][2])
    /\ [][ Len(Declared') = Len(Declared) + 1 =>
             LET base  == Declared'[Len(Declared')][1]
                 final == Declared'[Len(Declared')][2]
                 taken == DOMAIN ln.ctx.vars
             IN  /\ final \notin taken
                 /\ DOMAIN ln'.ctx.vars = taken \cup {final}
                 /\ \A v \in taken : ln'.ctx.vars[v] = ln.ctx.vars[v]
                 /\ ln'.ctx.last_var = final
                 /\ IF base \notin taken THEN final = base
                    ELSE \E k \in 1..Cardinality(taken) + 1 :
                            /\ final = base \o to_string(k)
                            /\ \A j \in 1..k - 1 : base \o to_string(j) \in taken
         ]_vars

C11_Witness ==
    Declared = << <<"x1", "x1">>, <<"x", "x">>, <<"x", "x2">> >>

\* a line of the generated main() that declares a variable at the scope of
\* main: not indented, a type keyword, a second word, a closing ';'
DeclaresVariable(l) ==
    /\ l # ""
    /\ ~isspace(At(l, 0))
    /\ At(l, Len(l) - 1) = ";"
    /\ Len(tokenize(l)) >= 2
    /\ tokenize(l)[1] \in TypeLikeKeywords

\* the identifier such a line declares
DeclaredIdentifier(l) == for_word(tokenize(l)[2])

\* C12: the body lines aggregated in one line pass never declare the same
\* identifier twice at the scope of main.
C12_NoRedeclaration ==
    \A i, j \in 1..Len(ln.aggregated.body) :
        (/\ i < j
         /\ DeclaresVariable(ln.aggregated.body[i])
         /\ DeclaresVariable(ln.aggregated.body[j]))
            => DeclaredIdentifier(ln.aggregated.body[i])
                   # DeclaredIdentifier(ln.aggregated.body[j])

\* the 1-based positions of the tokens whose normalized form is a C++17
\* keyword or a key of the store
KnownPositions ==
    {i \in 1..Len(ln.tokens) :
        normalize_token(ln.tokens[i]) \in cpp17_keywords \cup DOMAIN user_keywords}

\* the occurrence list names the tokens at its positions, left to right
PositionsInOrder(occurrences) ==
    /\ \A k \in 1..Len(occurrences) :
          /\ occurrences[k][2] \in 1..Len(ln.tokens)
          /\ occurrences[k][1] = normalize_token(ln.tokens[occurrences[k][2]])
    /\ \A k \in 1..Len(occurrences) - 1 : occurrences[k][2] < occurrences[k + 1][2]

FollowUpPrompts ==
    {"macro_param", "type_name", "type_init", "for_init", "for_cond", "for_incr",
     "for_body", "generic_body"}

\* C14: occurrences are dispatched one at a time in list order: the index of
\* the occurrence in hand moves by one, exactly when its fragment is
\* appended, and the next occurrence is entered only from the dispatch loop;
\* a macro occurrence asks for its parameters one per step in declared order,
\* records the answer, or the stored default for an empty answer, under the
\* parameter's name, and expands after the last one.
C14_DispatchInOrder ==
    [][ /\ ln'.occ \in {ln.occ, ln.occ + 1}
        /\ (pc \in FollowUpPrompts /\ pc' \in FollowUpPrompts) => ln'.occ = ln.occ
        /\ (pc \in FollowUpPrompts /\ pc' = "dispatch") =>
               (ln'.occ = ln.occ + 1 /\ ln'.aggregated = append_parts(ln.aggregated, ln'.p))
        /\ (pc' \in FollowUpPrompts /\ pc \notin FollowUpPrompts) =>
               (pc = "dispatch" /\ ln.occ < Len(ln.occurrences) /\ ln'.occ = ln.occ)
        /\ (pc = "dispatch" /\ pc' = "macro_param") =>
               (ln'.pidx = 0 /\ ln'.values = NoValues)
        /\ (pc = "macro_param" /\ pc' # "exit0") =>
               LET uk    == user_keywords[OccKw]
                   pname == uk.params[ln.pidx + 1][1]
                   pdef  == uk.params[ln.pidx + 1][2]
               IN  /\ ln'.pidx = ln.pidx + 1
                   /\ DOMAIN ln'.values = DOMAIN ln.values \cup {pname}
                   /\ ln'.values[pname] \in {pdef} \cup (ValueAnswers \ {""})
                   /\ \A k \in DOMAIN ln.values \ {pname} : ln'.values[k] = ln.values[k]
                   /\ (pc' = "dispatch") = (ln'.pidx = Len(uk.params))
                   /\ pc' = "dispatch" =>
                          ln'.p = parts_from_user_snippet_with_params(uk, ln'.values, OccTag)
      ]_vars

C14_Witness ==
    /\ pc = "dispatch"
    /\ ln.occurrences = << <<"mykw", 1>>, <<"inc", 2>>, <<"mykw", 3>> >>
    /\ ln.occ = 3
    /\ ln.pidx = 2
    /\ ln.values = [k \in {"a", "b"} |-> IF k = "a" THEN "{b}" ELSE "2"]

\* the fragments returned so far in the pass, in the order they were returned
Fragments == ln.hist_parts

\* the lines of the fragments 1..n of one kind, one fragment after the other
RECURSIVE LinesOf(_, _)
LinesOf(kind, n) ==
    IF n = 0 THEN << >> ELSE LinesOf(kind, n - 1) \o Fragments[n][kind]

\* C15: after n occurrences have been dispatched, each of the aggregate's
\* three sequences is the concatenation of that sequence of the fragments
\* 1..n, in order, nothing merged, moved or dropped.
C15_OrderedConcatenation ==
    /\ Len(Fragments) = ln.occ
    /\ ln.aggregated.includes = LinesOf("includes", ln.occ)
    /\ ln.aggregated.top = LinesOf("top", ln.occ)
    /\ ln.aggregated.body = LinesOf("body", ln.occ)

C15_Witness ==
    /\ ln.occ = 2
    /\ ln.occurrences = << <<"int", 1>>, <<"for", 2>> >>
    /\ Len(ln.aggregated.body) = 8
    /\ ln.aggregated.body[2] = "int x = 0;"
    /\ ln.aggregated.body[6] = "for (int i = 0; i < 5; ++i) {"

\* the prompts of a keyword line: of the scan for unknown tokens, and of the
\* occurrence being dispatched
LinePrompts == {"scan_choice", "scan_params", "scan_body"} \cup FollowUpPrompts

EofReports ==
    {"EOF received during custom-keyword definition prompt. Cancelling and exiting.",
     "EOF received during follow-up prompts. Cancelling and exiting."}

\* a step in which a prompt of the line meets end of input
EofAtPrompt == pc \in LinePrompts /\ out' \in EofReports

\* C16: when a prompt of a keyword line meets end of input, the line stops
\* there: the step dispatches nothing and assembles nothing, no step follows
\* it, and so no program is assembled or shown for the line.
C16_EofAbortsLine ==
    /\ [][ /\ EofAtPrompt => (pc' = "exit0" /\ ln' = ln /\ ln.final_program = "")
           /\ (pc = "exit0") => (vars' = vars)
         ]_vars
    /\ [](pc = "exit0" => ln.final_program = "")

C16_Witness ==
    /\ pc = "exit0"
    /\ out = "EOF received during follow-up prompts. Cancelling and exiting."
    /\ Len(ln.occurrences) = 3
    /\ ln.occ = 1
    /\ ln.aggregated.body # << >>
    /\ ln.final_program = ""

\* C17 as claimed: after end of input at a prompt of a keyword line, control
\* is back at the top-level prompt with the per-line state discarded.
C17_EofReturnsToTop ==
    [][ EofAtPrompt => (pc' = "top" /\ ln' = LnInit) ]_vars

\* C17 as amended: end of input at a prompt of a keyword line ends the run:
\* the notice is printed, main returns 0, the store and the file stay as they
\* are, and the top-level prompt is not reached again.
C17_EofEndsRun ==
    [][ /\ EofAtPrompt =>
              /\ pc' = "exit0"
              /\ user_keywords' = user_keywords
              /\ file' = file
              /\ cmds' = cmds
        /\ (pc = "exit0") => (pc' = "exit0" /\ cmds' = cmds)
      ]_vars

C17_Witness ==
    /\ pc = "exit0"
    /\ out = "EOF received during custom-keyword definition prompt. Cancelling and exiting."
    /\ def.name = "foo"
    /\ ln.i = 0

\* the number of places of s at which token stands
CountOf(s, token) ==
    Cardinality({i \in 1..Len(s) - Len(token) + 1 :
                    SubSeq(s, i, i + Len(token) - 1) = token})

\* the lines, each indented by four spaces and ended by a newline
RECURSIVE Indented(_)
Indented(lines) ==
    IF lines = << >> THEN "" ELSE "    " \o Head(lines) \o "\n" \o Indented(Tail(lines))

\* the text s ends with tail
EndsWith(s, tail) ==
    Len(s) >= Len(tail) /\ substr_from(s, Len(s) - Len(tail)) = tail

\* C18: the assembled program starts with the core include, ends with one
\* main() that wraps the aggregated body lines in order, each indented, and
\* 'return 0;', and holds the text 'int main(' exactly once.
C18_SingleEntryPoint ==
    ln.final_program # "" =>
        /\ begins_with(ln.final_program, "#include <iostream>\n")
        /\ EndsWith(ln.final_program,
                    "int main(int argc, char *argv[]) {\n"
                        \o Indented(ln.aggregated.body)
                        \o "    return 0;\n}\n")
        /\ CountOf(ln.final_program, "int main(") = 1

\* the lines of the assembled program up to its first empty line
RECURSIVE HeaderLines(_)
HeaderLines(lines) ==
    IF lines = << >> \/ Head(lines) = "" THEN << >>
    ELSE << Head(lines) >> \o HeaderLines(Tail(lines))

\* what the #include directives after the core one name, in emitted order
Directives ==
    LET header == Tail(HeaderLines(getline_all(ln.final_program, "\n"))) IN
        [k \in 1..Len(header) |-> substr_from(header[k], Len("#include "))]

AggregatedIncludes ==
    {ln.aggregated.includes[k] : k \in 1..Len(ln.aggregated.includes)}

\* C19 as claimed: every distinct aggregated include text is emitted as one
\* directive in the form it was aggregated in, and only identical texts share
\* a directive.
C19_DedupByText ==
    ln.final_program # "" =>
        /\ {Directives[k] : k \in 1..Len(Directives)} = AggregatedIncludes
        /\ Len(Directives) = Cardinality(AggregatedIncludes)

\* the form an include is printed in: trimmed, and put in angle brackets
\* unless it is already in angle brackets or in quotes
PrintedForm(t) ==
    LET u == trim(t) IN
        IF u = "" THEN ""
        ELSE IF At(u, 0) = "<" /\ At(u, Len(u) - 1) = ">" THEN u
        ELSE IF At(u, 0) = "\"" /\ At(u, Len(u) - 1) = "\"" THEN u
        ELSE "<" \o u \o ">"

\* C19 as amended: the directives after the core one are the printed forms of
\* the aggregated includes, each once, without the empty form and without
\* <iostream>, in ascending order; two includes share a directive exactly
\* when their printed forms are equal.
C19_DedupByPrintedForm ==
    ln.final_program # "" =>
        /\ {Directives[k] : k \in 1..Len(Directives)}
               = {PrintedForm(t) : t \in AggregatedIncludes} \ {"", "<iostream>"}
        /\ \A k \in 1..Len(Directives) - 1 : StrLess(Directives[k], Directives[k + 1])
        /\ \A k \in 1..Len(Directives) :
               begins_with(HeaderLines(getline_all(ln.final_program, "\n"))[k + 1],
                           "#include ")

C19_Witness ==
    /\ ln.final_program # ""
    /\ {"<map>", "map", "\"local.h\"", "<iostream>"} \subseteq AggregatedIncludes
    /\ Len(ln.aggregated.includes) > Len(Directives)
    /\ \E k \in 1..Len(Directives) : Directives[k] = "<map>"

\* the names defined inline during the scan of this line, and the positions
\* of the tokens the user chose to skip
DefinedInline == ln.hist_defined

SkippedPositions == ln.hist_skipped

OccurrencePositions(occurrences) ==
    {occurrences[k][2] : k \in 1..Len(occurrences)}

\* every token that names a macro defined inline is an occurrence
DefinedTokensOccur ==
    pc = "resolve" =>
        \A i \in 1..Len(ln.tokens) :
            normalize_token(ln.tokens[i]) \in DefinedInline
                => /\ i \in OccurrencePositions(ln'.occurrences)
                   /\ normalize_token(ln.tokens[i]) \in DOMAIN user_keywords

\* an occurrence that names a macro defined inline goes through the macro
\* path: its parameter prompts, or at once its expansion
DefinedGoThroughMacroPath ==
    (pc = "dispatch" /\ ln.occ < Len(ln.occurrences) /\ OccKw \in DefinedInline /\ pc' # "top")
        => \/ pc' = "macro_param" /\ user_keywords[OccKw].params # << >>
           \/ /\ pc' = "dispatch"
              /\ ln'.p = parts_from_user_snippet_with_params(
                             user_keywords[OccKw], NoValues, OccTag)

\* C20 as claimed: every token that names a macro defined inline is an
\* occurrence and is dispatched through the macro path, and no token the user
\* skipped is an occurrence.
C20_SkippedNeverOccurs ==
    [][ /\ DefinedTokensOccur
        /\ DefinedGoThroughMacroPath
        /\ pc = "resolve" =>
               SkippedPositions \cap OccurrencePositions(ln'.occurrences) = {}
      ]_vars

\* C20 as amended: every token that names a macro defined inline is an
\* occurrence and is dispatched through the macro path; a token the user
\* skipped is an occurrence exactly when the same name was defined at a later
\* token of the line.
C20_SkippedOccursIfDefinedLater ==
    [][ /\ DefinedTokensOccur
        /\ DefinedGoThroughMacroPath
        /\ pc = "resolve" =>
               \A i \in SkippedPositions :
                   (i \in OccurrencePositions(ln'.occurrences))
                       = (normalize_token(ln.tokens[i]) \in DefinedInline)
      ]_vars

C20_Witness ==
    /\ ln.tokens = << "foo", "foo" >>
    /\ SkippedPositions = {1}
    /\ DefinedInline = {"foo"}
    /\ ln.occurrences = << <<"foo", 1>>, <<"foo", 2>> >>
    /\ ln.occ = 2
    /\ pc = "top"
    /\ ln.final_program # ""

\* a line that begins with ===KEYWORD: and has a closing "===" after at least
\* one character of name
WellFormedHeader(line) ==
    /\ begins_with(line, "===KEYWORD:")
    /\ rfind(substr_from(line, Len("===KEYWORD:")), "===") \notin {npos, 0}

\* the name such a header line carries
HeaderKey(line) ==
    trim(substr(line, Len("===KEYWORD:"),
                rfind(substr_from(line, Len("===KEYWORD:")), "===")))

\* C21 as claimed: a well-formed ===KEYWORD: line opens a new block and resets
\* the buffer in whatever state of the parser it is read.
C21_HeaderAlwaysOpens ==
    [][ (pc = "load_loop" /\ ld.ifs # << >> /\ WellFormedHeader(Head(ld.ifs))) =>
            /\ ld'.in_entry
            /\ ld'.current_key = HeaderKey(Head(ld.ifs))
            /\ ld'.current_params = << >>
            /\ ld'.buffer = ""
      ]_vars

\* C21 as amended: a well-formed ===KEYWORD: line read outside a block opens a
\* new block with its name, no parameters and an empty buffer; read inside an
\* open block it is appended to that block's body like any other line, and
\* the block, its name, its parameters and the map stay as they were.
C21_HeaderOpensOutsideBlock ==
    [][ (pc = "load_loop" /\ ld.ifs # << >> /\ WellFormedHeader(Head(ld.ifs))) =>
            /\ pc' = "load_loop"
            /\ ld'.ifs = Tail(ld.ifs)
            /\ user_keywords' = user_keywords
            /\ ld'.in_entry
            /\ IF ~ld.in_entry
               THEN /\ ld'.current_key = HeaderKey(Head(ld.ifs))
                    /\ ld'.current_params = << >>
                    /\ ld'.buffer = ""
               ELSE /\ ld'.current_key = ld.current_key
                    /\ ld'.current_params = ld.current_params
                    /\ ld'.buffer = ld.buffer \o Head(ld.ifs) \o "\n"
      ]_vars

C21_Witness ==
    /\ pc = "top"
    /\ file.text = "===KEYWORD:mykw===\n===KEYWORD:int===\n===END===\n"
    /\ DOMAIN user_keywords = {"mykw"}
    /\ user_keywords["mykw"] = UserKeyword("===KEYWORD:int===\n", << >>)

\* a line that begins with ===PARAMS: and has a closing "===" after at least
\* one character
WellFormedParams(line) ==
    /\ begins_with(line, "===PARAMS:")
    /\ rfind(substr_from(line, Len("===PARAMS:")), "===") \notin {npos, 0}

\* the text such a line carries between the marker and the closing "==="
ParamsPayload(line) ==
    substr(line, Len("===PARAMS:"),
           rfind(substr_from(line, Len("===PARAMS:")), "==="))

\* the pair one comma-separated entry stands for: the name before the first
\* "=" and the default after it, both trimmed; a bare name has no default
EntryPair(entry) ==
    << trim(PiecesBetween(entry, "=")[1]),
       IF Len(PiecesBetween(entry, "=")) = 1 THEN ""
       ELSE trim(Joined(Tail(PiecesBetween(entry, "=")), "=")) >>

EntryPairs(payload) ==
    [i \in 1..Len(PiecesBetween(payload, ",")) |->
         EntryPair(PiecesBetween(payload, ",")[i])]

Named(pair) == pair[1] # ""

\* C22: inside a block a well-formed ===PARAMS: line adds, left to right, one
\* (name, default) pair per comma-separated entry: name=default with both
\* sides trimmed, a bare name with an empty default; an entry whose name is
\* empty after trimming is discarded and the others are kept; nothing else of
\* what the loader has parsed changes.
C22_ParamsParsedInOrder ==
    [][ (pc = "load_loop" /\ ld.ifs # << >> /\ ld.in_entry
            /\ WellFormedParams(Head(ld.ifs))) =>
            /\ ld'.current_params =
                   ld.current_params
                       \o SelectSeq(EntryPairs(ParamsPayload(Head(ld.ifs))), Named)
            /\ << ld'.in_entry, ld'.current_key, ld'.buffer, user_keywords' >>
                 = << ld.in_entry, ld.current_key, ld.buffer, user_keywords >>
      ]_vars

C22_Witness ==
    /\ pc = "top"
    /\ file.text = "===KEYWORD:mykw===\n===PARAMS: a = 1=2 ,=3, b===\n===END===\n"
    /\ DOMAIN user_keywords = {"mykw"}
    /\ user_keywords["mykw"] = UserKeyword("", << <<"a", "1=2">>, <<"b", "">> >>)

\* the directive word a line begins with, blanks around the line set aside
DirectiveWord(line) ==
    IF begins_with(trim(line), "#include") THEN "#include"
    ELSE IF begins_with(trim(line), "# include") THEN "# include"
    ELSE ""

IsDirective(line) == DirectiveWord(line) # ""

IsBodyLine(line) == ~IsDirective(line)

\* what follows the directive word, trimmed
DirectiveRemainder(line) ==
    trim(substr_from(trim(line), Len(DirectiveWord(line))))

NonEmpty(text) == text # ""

\* the remainders of the directive lines among lines, in order
RemaindersOf(lines) ==
    LET directives == SelectSeq(lines, IsDirective) IN
        SelectSeq([i \in 1..Len(directives) |-> DirectiveRemainder(directives[i])],
                  NonEmpty)

\* C23: after substitution, the includes of the fragment are the trimmed
\* remainders after the directive word of the lines that begin with #include
\* or # include, in order, and its body is one origin comment line followed
\* by all the other lines, in order.
C23_IncludesPartitioned ==
    (pc = "expanded" /\ ex.build = "snippet_gen.cpp"
        /\ find(ex.transformed, "int main(", 0) = npos) =>
        /\ ex.parts.includes = RemaindersOf(getline_all(ex.transformed, "\n"))
        /\ Len(ex.parts.body) >= 1
        /\ begins_with(ex.parts.body[1], "//")
        /\ Tail(ex.parts.body)
             = SelectSeq(getline_all(ex.transformed, "\n"), IsBodyLine)

\* the prompts of the scan for unknown tokens, which runs before the
\* occurrence list is built
ScanPrompts == {"scan_choice", "scan_params", "scan_body"}

\* an occurrence of the list is being dispatched
DispatchingOccurrence ==
    ln.occurrences # << >> /\ ln.occ < Len(ln.occurrences)

\* C24 as claimed: whenever the pass of a keyword line waits at a prompt, an
\* occurrence is being dispatched.
C24_PromptsOnlyInDispatch == (pc \in LinePrompts) => DispatchingOccurrence

LetterOrUnderscore(c) ==
    find("abcdefghijklmnopqrstuvwxyzABCDEFGHIJKLMNOPQRSTUVWXYZ_", c, 0) # npos

\* the token the scan stands at looks like an undefined custom keyword
UnknownIdentifier ==
    /\ ln.i < Len(ln.tokens)
    /\ ScanNorm # ""
    /\ ScanNorm \notin cpp17_keywords
    /\ ScanNorm \notin DOMAIN user_keywords
    /\ LetterOrUnderscore(At(ScanNorm, 0))

\* C24 as amended: the pass of a keyword line prompts in two places only. The
\* follow-up prompts are issued while an occurrence is being dispatched. The
\* define-or-skip prompts are issued earlier, while the tokens are scanned and
\* before the occurrence list is built, and only for a token that is neither a
\* C++17 keyword nor stored and begins with a letter or an underscore. The
\* steps that advance the scan, build the occurrence list, enter an occurrence
\* or assemble the program read no input, so no end of input is met there.
C24_PromptsInScanAndDispatch ==
    [][ /\ (pc \in FollowUpPrompts) => DispatchingOccurrence
        /\ (pc \in ScanPrompts) => (ln.occurrences = << >> /\ UnknownIdentifier)
        /\ (pc \in {"scan", "resolve", "dispatch"}) =>
               (out' \notin EofReports /\ pc' # "exit0")
        /\ (out' \in EofReports) => (pc \in LinePrompts)
      ]_vars

C24_Witness ==
    /\ pc = "type_name"
    /\ ln.hist_skipped = {1}
    /\ ln.occ = 0
    /\ Len(ln.occurrences) = 2

\* C25: every key of the store is canonical in every reachable state: it is
\* not empty and normalising it (lowercase, no punctuation at either end)
\* gives the key itself.
C25_KeysCanonical ==
    \A key \in DOMAIN user_keywords : key # "" /\ normalize_token(key) = key

\* C26: every line starts dispatching with an empty generation context, and
\* the first occurrence of a line that declares a variable gets the base name
\* it asked for, whatever the lines before it have declared.
C26_ContextPerLine ==
    [][ /\ (pc = "resolve" /\ pc' = "dispatch") =>
              ln'.ctx = [vars |-> << >>, types |-> {}, last_var |-> "",
                         last_type |-> ""]
        /\ (Len(Declared') = Len(Declared) + 1 /\ ln.occ = 0) =>
              Declared'[Len(Declared')][2] = Declared'[Len(Declared')][1]
      ]_vars

C26_Witness ==
    /\ cmds = 2
    /\ "x" \in ln.hist_prev
    /\ Declared = << <<"x", "x">> >>
    /\ DOMAIN ln.ctx.vars = {"x"}

\* the prompts of the commands and of the pass of a keyword line
FlowPrompts ==
    {"search_term", "add_name", "add_overwrite", "add_params", "add_body",
     "edit_key", "edit_param", "edit_add_param", "edit_default", "edit_replace",
     "edit_body"} \cup LinePrompts

\* what the run shows when a prompt meets end of input
EofMessages ==
    EofReports \cup
        {"EOF received at top-level. Exiting cleanly.",
         "EOF during custom keyword definition. Cancelling and exiting.",
         "terminate called after throwing an instance of 'EOFExit'"}

\* a step in which a prompt meets end of input
EofStep == pc \in FlowPrompts \cup {"top"} /\ out' \in EofMessages

\* the prompts whose answer can complete a definition or an edit
CompletingPrompts == {"add_body", "scan_body", "edit_replace", "edit_body"}

\* C27: a step in which a prompt meets end of input leaves the store and the
\* file as they were; and while a definition or an edit is being entered the
\* store and the file change only in the step that completes it with a save,
\* so at end of input they are as the last completed mutation left them.
C27_EofPersistsNothing ==
    [][ /\ EofStep => (user_keywords' = user_keywords /\ file' = file
                          /\ hist_mutations' = hist_mutations)
        /\ (pc \in FlowPrompts /\ (user_keywords' # user_keywords \/ file' # file)) =>
               /\ pc \in CompletingPrompts
               /\ out' \notin EofMessages
               /\ hist_mutations' = hist_mutations + 1
      ]_vars

C27_Witness ==
    /\ pc = "terminate"
    /\ hist_mutations = 0
    /\ ed.key \in DOMAIN user_keywords
    /\ ed.uk # user_keywords[ed.key]
    /\ file.text = save_text(user_keywords)

\* the states of the pass of a keyword line after the scan: the occurrence
\* list is built, occurrences are dispatched and expanded, fragments are
\* aggregated, the program is assembled
GenerationStates == {"resolve", "dispatch"} \cup FollowUpPrompts

\* the step changes the store or its file, or saves
StoreTouched ==
    \/ user_keywords' # user_keywords
    \/ file' # file
    \/ hist_mutations' # hist_mutations

\* a :remove that finds the name and erases it
RemovalStep ==
    /\ pc = "top"
    /\ out' \in {"Removed and saved changes.", "Removed but failed to save to disk."}
    /\ ed'.key \in DOMAIN user_keywords
    /\ user_keywords' = MapErase(user_keywords, ed'.key)

\* C28: once the store is loaded, building the occurrence list, dispatching,
\* expanding, aggregating and assembling leave the store and the file alone;
\* the store and the file change only in the step that completes a
\* definition or an edit and in a removal that finds its name; a :remove of a
\* name that is not stored changes neither and does not save.
C28_GenerationLeavesStore ==
    [][ /\ (pc \in GenerationStates) => ~StoreTouched
        /\ (StoreTouched /\ pc \notin {"load_open", "load_loop"}) =>
               (pc \in CompletingPrompts \/ RemovalStep)
        /\ (pc = "top" /\ out' = "No such custom keyword") => ~StoreTouched
      ]_vars

C28_Witness ==
    /\ pc = "top"
    /\ out = "No such custom keyword"
    /\ ed.key = "int"
    /\ DOMAIN user_keywords = {"mykw"}
    /\ hist_mutations = 0

Unscanned == substr_from(ex.s, ex.pos)

\* one run of the loop body: the first occurrence of the token at or after
\* the scan position is replaced, the scan position moves to the end of the
\* inserted text, and what is left to scan is the text that followed the
\* occurrence, which is shorter than what was left before
ReplacedOne ==
    \E p \in ex.pos..Len(ex.s) - Len(ex.token) :
        /\ substr(ex.s, p, Len(ex.token)) = ex.token
        /\ \A q \in ex.pos..p - 1 : substr(ex.s, q, Len(ex.token)) # ex.token
        /\ substr(ex'.s, 0, ex'.pos) = substr(ex.s, 0, p) \o ex.repl
        /\ Unscanned' = substr_from(ex.s, p + Len(ex.token))
        /\ Len(Unscanned') < Len(Unscanned)

\* C30: replace_all terminates for every body, token and replacement, also
\* when the replacement contains the token: each run of the loop body moves
\* the scan position past the inserted replacement, so inserted text is never
\* scanned again and the text left to scan shrinks; an empty token returns at
\* once and leaves the string as it was; the result is the body with every
\* occurrence of the token, found left to right without overlap, replaced.
C30_ReplaceTerminates ==
    /\ [][ /\ (pc = "replace_loop" /\ pc' = "replace_loop") => ReplacedOne
           /\ (pc = "replace" /\ ex.token = "") =>
                  (pc' = "replaced" /\ ex'.s = ex.s)
         ]_vars
    /\ [](pc = "replaced" =>
             /\ ex.s = IF ex.token = "" THEN ex.body
                       ELSE Joined(PiecesBetween(ex.body, ex.token), ex.repl)
             /\ ex.s = replace_all(ex.body, ex.token, ex.repl))
    /\ <>(pc = "replaced")

C30_Witness ==
    /\ pc = "replaced"
    /\ ex.body = "x{a}{a}y"
    /\ ex.token = "{a}"
    /\ ex.repl = "{a}{a}"
    /\ ex.s = "x{a}{a}{a}{a}y"

====
